---- MODULE Spec2Model ----
(***************************************************************************)
(* ytranscript: the bulk scheduler of src/lib/processor.ts, the merge of    *)
(* candidate sources of src/loaders/index.ts and the caption track         *)
(* selector.                                                               *)
(*                                                                         *)
(*   processVideos (collect mode)  - specification SpecCollect             *)
(*   streamVideos  (stream mode)   - specification SpecStream              *)
(*   mergeVideoSources             - specification SpecMerge               *)
(*   track selection               - specification SpecSelect              *)
(*                                                                         *)
(* A candidate is identified by its position in the `videos` array (the    *)
(* identity of the object in the array); two entries may carry the same    *)
(* videoId.  fetchTranscript is the environment: every attempt that is in  *)
(* flight may complete at any time, with a transcript, with a thrown Error *)
(* or with a thrown value that is not an Error.                            *)
(***************************************************************************)
EXTENDS Integers, Sequences, FiniteSets, TLC

\* ------------------------------------------------------------------ bounds
MaxVideos == 3
MaxConcurrency == 2
MaxPauseAfter == 3
MaxSources == 3
MaxTracks == 2
MaxLanguages == 2
MaxEvents == 2
MaxItems == 3
MaxCalls == 3
MaxWriters == 3
MaxInterrupts == 1

\* ------------------------------------------------------------- input sets
VideoIds == {"a", "b"}
ErrorMessages == {"No captions available"}
UnknownError == "Unknown error"
Null == "null"
Absent == "absent"

\* The state of one promise of batchPromises.
NoResult == [pos |-> 0, meta |-> [videoId |-> Null], transcript |-> Null, error |-> Absent]
Pending == [state |-> "pending", value |-> NoResult]
Rejected == [state |-> "rejected", value |-> NoResult]
Fulfilled(result) == [state |-> "fulfilled", value |-> result]

\* What one call of fetchTranscript can end with.
FetchOutcomes ==
  {[kind |-> "transcript", message |-> Absent], [kind |-> "nonError", message |-> Absent]}
    \cup {[kind |-> "Error", message |-> m] : m \in ErrorMessages}

\* The candidate lists: every array of at most MaxVideos entries.
RECURSIVE SeqsUpTo(_, _)
SeqsUpTo(S, n) ==
  IF n = 0 THEN {<<>>}
  ELSE LET shorter == SeqsUpTo(S, n - 1)
       IN shorter \cup {Append(s, x) : s \in {t \in shorter : Len(t) = n - 1}, x \in S}

WatchHistoryMeta == [videoId : VideoIds]
CandidateLists == SeqsUpTo(WatchHistoryMeta, MaxVideos)

\* pauseDuration: zero, or some positive number of milliseconds.
PauseDurations == {0, 100}
OnProgressKinds == {"none", "returns", "throws"}

VARIABLES
  \* the arguments of the call
  mode, videos, skipIds, concurrency, pauseAfter, pauseDuration, onProgress,
  \* processVideos
  pc, toProcess, batches, batchIndex, settled, results, completed,
  \* the limiter pLimit(concurrency)
  queue, active,
  \* streamVideos and its consumer
  gen, cursor, processedInBatch, pendingNext, pendingReturn, yielded,
  \* observations of the run
  \*   started          the positions fetchTranscript was called for, in call order
  \*   completionOrder  the attempts that ended, in the order they ended
  \*   progressCalls    the calls of onProgress
  \*   idles            the pauses begun
  \*   requested        the next() calls made by the consumer
  \*   returnCalled     the consumer has called return()
  \*   peakInFlight     the largest number of attempts in flight so far
  started, completionOrder, progressCalls, idles, requested, returnCalled, peakInFlight,
  \* mergeVideoSources: its arguments and its return value
  sources, merged,
  \* the track selector: its arguments and the track it returns
  tracks, languages, selected,
  \* the pure function under inspection has returned
  returned,
  \* fetchTranscript, fetchVideoInfo and the get and info commands
  \*   command          what was invoked
  \*   input            the video argument
  \*   proxyOption      the --proxy option
  \*   stage            the state of the fetch pipeline
  \*   trail            the states the pipeline has been in, in order
  \*   failure          the message of the Error thrown, or Absent
  \*   catalogRequests  the requests sent to the player endpoint
  \*   segmentRequests  the requests sent to a track's baseUrl
  \*   events           the events of the segment payload
  \*   segments         the segments of the transcript returned
  \*   infoTracks       the list fetchVideoInfo resolved with
  \*   proxyExamined    parseProxy has been called
  \*   reported         what the command printed last
  \*   exitStatus       the status the process ended with, or Running
  command, input, proxyOption, stage, trail, failure, catalogRequests, segmentRequests,
  events, segments, infoTracks, proxyExamined, reported, exitStatus,
  \* loadWatchHistory, loadWatchLater, fromVideoIds
  \*   loader           the loader that was called
  \*   loadFile         the file (or the array of inputs) it was called on
  \*   loaded           what it returned: rejected, or the entries
  loader, loadFile, loaded,
  \* the bulk command
  \*   bulk             where the action is: start, loop (at for await),
  \*                    appending (at await appendJsonl), done, exited, rejected
  \*   resume           the --resume option
  \*   allVideos        what mergeVideoSources returned
  \*   log              the lines of the JSONL file
  \*   successCount, failCount
  \*   taken            the results the loop has received
  \*   appending        the result appendJsonl is writing
  \*   appends          the appendJsonl calls that have resolved
  \*   interrupted      how often the command was killed and started again
  bulk, resume, allVideos, log, successCount, failCount, taken, appending, appends,
  interrupted,
  \* the file helpers
  \*   disk             the file at the path: there or not, and its content
  \*   tasks            the appendTextFile calls under way, by caller
  \*   calls            the helper calls that have resolved, in order
  \*   readResult       what the last readTextFile resolved with
  disk, tasks, calls, readResult

args == <<mode, videos, skipIds, concurrency, pauseAfter, pauseDuration, onProgress>>
collectVars == <<pc, toProcess, batches, batchIndex, settled, results, completed>>
limitVars == <<queue, active>>
streamVars == <<gen, cursor, processedInBatch, pendingNext, pendingReturn, yielded>>
obsVars ==
  <<started, completionOrder, progressCalls, idles, requested, returnCalled, peakInFlight>>
mergeVars == <<sources, merged>>
selectVars == <<tracks, languages, selected>>
\* What the scheduler never touches.
fetchVars ==
  <<command, input, proxyOption, stage, trail, failure, catalogRequests, segmentRequests,
    events, segments, infoTracks, proxyExamined, reported, exitStatus>>
loadVars == <<loader, loadFile, loaded>>
bulkVars ==
  <<bulk, resume, allVideos, log, successCount, failCount, taken, appending, appends,
    interrupted>>
fileVars == <<disk, tasks, calls, readResult>>
\* What a fetch never touches.
besideFetch == <<loadVars, bulkVars, fileVars>>
\* The commands, the loaders and the file helpers.
ioVars == <<fetchVars, besideFetch>>
outside == <<mergeVars, selectVars, returned, ioVars>>
vars == <<args, collectVars, limitVars, streamVars, obsVars, outside>>

Min(a, b) == IF a < b THEN a ELSE b
Max(a, b) == IF a < b THEN b ELSE a

\* ------------------------------------------------------- pure helpers
\* Mutant: the filter tests the entry instead of its videoId, skipIds.has(v),
\* which no entry passes: nothing is skipped.
FilterSkipped_KeepsAll(vs, skip, i) == [k \in 1..(Len(vs) - i + 1) |-> k + i - 1]

\* videos.filter((v) => !skipIds.has(v.videoId)), as the positions kept.
RECURSIVE FilterSkipped(_, _, _)
FilterSkipped(vs, skip, i) ==
  IF i > Len(vs) THEN <<>>
  ELSE IF vs[i].videoId \in skip THEN FilterSkipped(vs, skip, i + 1)
  ELSE <<i>> \o FilterSkipped(vs, skip, i + 1)

\* toProcess.slice(from, to) with 0-based from (inclusive) and to (exclusive).
Slice(s, from, to) == SubSeq(s, from + 1, Min(to, Len(s)))

\* Mutant: every slice ends one entry early, slice(i, i + pauseAfter - 1).
RECURSIVE MakeBatches_ShortSlices(_, _, _)
MakeBatches_ShortSlices(tp, size, i) ==
  IF i >= Len(tp) THEN <<>>
  ELSE <<Slice(tp, i, i + size - 1)>> \o MakeBatches_ShortSlices(tp, size, i + size)

\* for (i = 0; i < toProcess.length; i += pauseAfter) batches.push(slice(i, i + pauseAfter))
RECURSIVE MakeBatches(_, _, _)
MakeBatches(tp, size, i) ==
  IF i >= Len(tp) THEN <<>>
  ELSE <<Slice(tp, i, i + size)>> \o MakeBatches(tp, size, i + size)

\* Mutant: the catch clause handles Error instances only and rethrows the rest.
ProcessOne_RethrowsNonError(pos, outcome) ==
  IF outcome.kind = "transcript"
  THEN [thrown |-> FALSE,
        result |-> [pos |-> pos, meta |-> videos[pos],
                    transcript |-> videos[pos].videoId, error |-> Absent]]
  ELSE [thrown |-> outcome.kind # "Error",
        result |-> [pos |-> pos, meta |-> videos[pos], transcript |-> Null,
                    error |-> outcome.message]]

\* Mutant: the catch clause of processOne reports 'Unknown error' for whatever
\* was thrown.
ProcessOne_UnknownForAll(pos, outcome) ==
  IF outcome.kind = "transcript"
  THEN [thrown |-> FALSE,
        result |-> [pos |-> pos, meta |-> videos[pos],
                    transcript |-> videos[pos].videoId, error |-> Absent]]
  ELSE [thrown |-> FALSE,
        result |-> [pos |-> pos, meta |-> videos[pos], transcript |-> Null,
                    error |-> UnknownError]]

\* processOne's try/catch: the outcome of fetchTranscript as a TranscriptResult.
\* A transcript is named by the videoId it was fetched for.
\* `thrown` says whether an exception leaves the function: the catch clause
\* has no condition, so none does.
ProcessOne(pos, outcome) ==
  IF outcome.kind = "transcript"
  THEN [thrown |-> FALSE,
        result |-> [pos |-> pos, meta |-> videos[pos],
                    transcript |-> videos[pos].videoId, error |-> Absent]]
  ELSE [thrown |-> FALSE,
        result |-> [pos |-> pos, meta |-> videos[pos], transcript |-> Null,
                    error |-> IF outcome.kind = "Error" THEN outcome.message
                              ELSE UnknownError]]

\* Mutant: the catch clause reads .message off whatever was thrown, which a
\* thrown value that is no Error does not have.
StreamProcessOne_MessageOfAnything(pos, outcome) ==
  IF outcome.kind = "transcript"
  THEN [thrown |-> FALSE,
        result |-> [pos |-> pos, meta |-> videos[pos],
                    transcript |-> videos[pos].videoId, error |-> Absent]]
  ELSE [thrown |-> FALSE,
        result |-> [pos |-> pos, meta |-> videos[pos], transcript |-> Null,
                    error |-> outcome.message]]

\* Mutant: the result carries a marked copy of the candidate,
\* { ...meta, fetched: true }.
StreamProcessOne_MarksMeta(pos, outcome) ==
  IF outcome.kind = "transcript"
  THEN [thrown |-> FALSE,
        result |-> [pos |-> pos, meta |-> [videoId |-> videos[pos].videoId, fetched |-> TRUE],
                    transcript |-> videos[pos].videoId, error |-> Absent]]
  ELSE [thrown |-> FALSE,
        result |-> [pos |-> pos, meta |-> [videoId |-> videos[pos].videoId, fetched |-> TRUE],
                    transcript |-> Null,
                    error |-> IF outcome.kind = "Error" THEN outcome.message
                              ELSE UnknownError]]

\* The same try/catch, written out again inside streamVideos.
StreamProcessOne(pos, outcome) ==
  IF outcome.kind = "transcript"
  THEN [thrown |-> FALSE,
        result |-> [pos |-> pos, meta |-> videos[pos],
                    transcript |-> videos[pos].videoId, error |-> Absent]]
  ELSE [thrown |-> FALSE,
        result |-> [pos |-> pos, meta |-> videos[pos], transcript |-> Null,
                    error |-> IF outcome.kind = "Error" THEN outcome.message
                              ELSE UnknownError]]

\* Mutant: the pause also follows the last batch, batchIndex < batches.length.
ShouldPause_AfterLastToo(b, nb, duration) == b <= nb /\ duration > 0

\* batchIndex < batches.length - 1 && pauseDuration > 0, for the 1-based index
\* b of the batch just finished among nb batches.
ShouldPause(b, nb, duration) == b < nb /\ duration > 0

\* ------------------------------------------------------------ the limiter
\* Mutant: the slot test is off by one, activeCount <= concurrency.
CanStart_OffByOne(activeCount, limit) == activeCount <= limit

\* p-limit runs a queued task when activeCount < concurrency.
CanStart(activeCount, limit) == activeCount < limit

\* limit(fn): the task is queued, and the head of the queue is started when a
\* slot is free.  A started task calls fetchTranscript at once.
LimitCall(l, pos) ==
  LET q == Append(l.queue, pos)
  IN IF CanStart(Cardinality(l.active), concurrency)
     THEN [queue |-> Tail(q), active |-> l.active \cup {Head(q)},
           started |-> Append(l.started, Head(q))]
     ELSE [queue |-> q, active |-> l.active, started |-> l.started]

\* Mutant: the queue is served from its tail, queue.pop() for queue.shift().
LimitNext_Lifo(l, pos) ==
  IF l.queue # <<>>
  THEN [queue |-> SubSeq(l.queue, 1, Len(l.queue) - 1),
        active |-> (l.active \ {pos}) \cup {l.queue[Len(l.queue)]},
        started |-> Append(l.started, l.queue[Len(l.queue)])]
  ELSE [queue |-> l.queue, active |-> l.active \ {pos}, started |-> l.started]

\* next(): the finished task leaves, and the head of the queue is started.
LimitNext(l, pos) ==
  IF l.queue # <<>>
  THEN [queue |-> Tail(l.queue), active |-> (l.active \ {pos}) \cup {Head(l.queue)},
        started |-> Append(l.started, Head(l.queue))]
  ELSE [queue |-> l.queue, active |-> l.active \ {pos}, started |-> l.started]

\* batch.map((meta) => limit(...)): one limit call per entry, in batch order.
RECURSIVE LimitAll(_, _)
LimitAll(l, batch) ==
  IF batch = <<>> THEN l ELSE LimitAll(LimitCall(l, Head(batch)), Tail(batch))

Limiter == [queue |-> queue, active |-> active, started |-> started]

\* ------------------------------------------------------------------- Init
ArgsInit ==
  /\ videos \in CandidateLists
  /\ skipIds \in SUBSET VideoIds
  /\ concurrency \in 1..MaxConcurrency
  /\ pauseAfter \in 0..MaxPauseAfter
  /\ pauseDuration \in PauseDurations

Running == "running"

\* A video argument: the shape of the string (a bare identifier, a watch URL
\* with a v parameter, a URL of another host) and the characters that stand
\* where the identifier is expected.
NoInput == [shape |-> "none", text |-> <<>>]

\* The --proxy option: not given, or a string that new URL() parses or
\* rejects, with the protocol it parses to.
NoProxy == [given |-> FALSE, parses |-> FALSE, protocol |-> ""]

\* No command and no fetch has been invoked.
FetchIdle ==
  /\ command = "none"
  /\ input = NoInput
  /\ proxyOption = NoProxy
  /\ stage = "idle"
  /\ trail = <<>>
  /\ failure = Absent
  /\ catalogRequests = 0
  /\ segmentRequests = 0
  /\ events = <<>>
  /\ segments = <<>>
  /\ infoTracks = <<>>
  /\ proxyExamined = FALSE
  /\ reported = "nothing"
  /\ exitStatus = Running

\* A file as a loader finds it: there or not, parseable or not, and the items
\* (history items, CSV rows, inputs) it holds.
NoFile == [exists |-> FALSE, wellFormed |-> FALSE, items |-> <<>>]

\* What a loader returned: a rejection, or its entries.
NoEntries == [rejected |-> FALSE, entries |-> <<>>]

\* No loader has been called.
LoadIdle ==
  /\ loader = "none"
  /\ loadFile = NoFile
  /\ loaded = NoEntries

\* The bulk command has not been run.
BulkIdle ==
  /\ bulk = "none"
  /\ resume = FALSE
  /\ allVideos = <<>>
  /\ log = <<>>
  /\ successCount = 0
  /\ failCount = 0
  /\ taken = 0
  /\ appending = NoResult
  /\ appends = 0
  /\ interrupted = 0

\* A file that does not exist.
NoDisk == [exists |-> FALSE, content |-> <<>>]

\* What readTextFile resolved with, before any call.
NoRead == [done |-> FALSE, rejected |-> FALSE, content |-> <<>>, after |-> 0]

\* No file helper has been called.
FileIdle ==
  /\ disk = NoDisk
  /\ tasks = <<>>
  /\ calls = <<>>
  /\ readResult = NoRead

IoIdle == FetchIdle /\ LoadIdle /\ BulkIdle /\ FileIdle

\* No merge and no track selection is under way.
OutsideIdle ==
  /\ IoIdle
  /\ sources = <<>>
  /\ merged = <<>>
  /\ tracks = <<>>
  /\ languages = <<>>
  /\ selected = 0
  /\ returned = FALSE

RunInit ==
  /\ toProcess = <<>>
  /\ batches = <<>>
  /\ batchIndex = 0
  /\ settled = [i \in 1..Len(videos) |-> Pending]
  /\ results = <<>>
  /\ completed = 0
  /\ queue = <<>>
  /\ active = {}
  /\ cursor = 0
  /\ processedInBatch = 0
  /\ pendingNext = 0
  /\ pendingReturn = FALSE
  /\ yielded = <<>>
  /\ started = <<>>
  /\ completionOrder = <<>>
  /\ progressCalls = <<>>
  /\ idles = 0
  /\ requested = 0
  /\ returnCalled = FALSE
  /\ peakInFlight = 0

InitCollect ==
  /\ mode = "collect"
  /\ ArgsInit
  /\ onProgress \in OnProgressKinds
  /\ RunInit
  /\ pc = "init"
  /\ gen = "unused"
  /\ OutsideIdle

\* ------------------------------------------------------ processVideos
\* Start batch b: every entry goes through limit(), then await Promise.all.
DispatchBatch(b, bs) ==
  LET l == LimitAll(Limiter, bs[b])
  IN /\ batchIndex' = b
     /\ queue' = l.queue
     /\ active' = l.active
     /\ started' = l.started
     /\ peakInFlight' = Max(peakInFlight, Cardinality(l.active))

\* The call of processVideos up to its first await.
CallProcessVideos ==
  /\ mode = "collect"
  /\ pc = "init"
  /\ LET tp == FilterSkipped(videos, skipIds, 1)
     IN /\ toProcess' = tp
        /\ IF tp = <<>>
           THEN /\ pc' = "resolved"
                /\ UNCHANGED <<batches, batchIndex, queue, active, started, peakInFlight>>
           ELSE IF pauseAfter = 0
           THEN \* i += 0 never reaches toProcess.length
                /\ pc' = "partitioning"
                /\ batches' = <<<<>>>>
                /\ UNCHANGED <<batchIndex, queue, active, started, peakInFlight>>
           ELSE /\ pc' = "running"
                /\ batches' = MakeBatches(tp, pauseAfter, 0)
                /\ DispatchBatch(1, batches')
  /\ UNCHANGED <<args, outside, settled, results, completed, streamVars,
                 completionOrder, progressCalls, idles, requested, returnCalled>>

\* One more turn of the partitioning loop when pauseAfter is 0: another empty
\* batch is pushed and i stays 0.  The loop has no exit; the model follows it
\* for MaxVideos + 1 turns.
PartitionLoop ==
  /\ pc = "partitioning"
  /\ Len(batches) <= MaxVideos
  /\ batches' = Append(batches, <<>>)
  /\ UNCHANGED <<args, outside, pc, toProcess, batchIndex, settled, results, completed,
                 limitVars, streamVars, obsVars>>

\* Mutant: the results of a batch are taken last promise first.
BatchResults_Reversed(s, batch) ==
  [k \in 1..Len(batch) |-> s[batch[Len(batch) + 1 - k]].value]

\* The results of batch b in batch order (Promise.all keeps the order of the
\* promises it was given).
BatchResults(s, batch) == [k \in 1..Len(batch) |-> s[batch[k]].value]

\* Mutant: Promise.race in place of Promise.all, the first fulfilment ends the wait.
AllFulfilled_AnyFulfilled(s, batch) ==
  \E k \in 1..Len(batch) : s[batch[k]].state = "fulfilled"

\* await Promise.all(batchPromises) goes on once every promise is fulfilled.
AllFulfilled(s, batch) == \A k \in 1..Len(batch) : s[batch[k]].state = "fulfilled"

\* Mutant: the total passed is the length of the whole input, videos.length.
ProgressArgs_TotalOfAll(count, tp, result) ==
  [completed |-> count, total |-> Len(videos), result |-> result]

\* The arguments of onProgress?.(completed, toProcess.length, result).
ProgressArgs(count, tp, result) ==
  [completed |-> count, total |-> Len(tp), result |-> result]

\* What the loop of processVideos does once the promise of one attempt has
\* settled: nothing while it is not awaiting or the batch is unfinished,
\* otherwise it rejects, pauses, starts the next batch or returns.
LoopStep(s, rejects) ==
  IF pc # "running" THEN "none"
  ELSE IF rejects THEN "reject"
  ELSE IF ~AllFulfilled(s, batches[batchIndex]) THEN "none"
  ELSE IF ShouldPause(batchIndex, Len(batches), pauseDuration) THEN "pause"
  ELSE IF batchIndex < Len(batches) THEN "dispatch"
  ELSE "return"

\* fetchTranscript of the attempt at position pos ends with `outcome`; the
\* limited function finishes (completed++, onProgress), the limiter moves on,
\* and when this was the batch's last promise the loop of processVideos goes
\* on to the pause, to the next batch or to the return.  cbThrows: this call
\* of onProgress throws.
CompleteAttempt(pos, outcome, cbThrows) ==
  /\ mode = "collect"
  /\ pos \in active
  /\ LET one == ProcessOne(pos, outcome)
         rejects == one.thrown \/ cbThrows
         s == [settled EXCEPT ![pos] = IF rejects THEN Rejected ELSE Fulfilled(one.result)]
         step == LoopStep(s, rejects)
         l == LimitNext(Limiter, pos)
         l2 == IF step = "dispatch" THEN LimitAll(l, batches[batchIndex + 1]) ELSE l
     IN /\ completionOrder' = Append(completionOrder, [pos |-> pos, kind |-> outcome.kind])
        /\ completed' = IF one.thrown THEN completed ELSE completed + 1
        /\ progressCalls' =
             IF one.thrown \/ onProgress = "none" THEN progressCalls
             ELSE Append(progressCalls, ProgressArgs(completed + 1, toProcess, one.result))
        /\ settled' = s
        /\ pc' = CASE step = "reject" -> "rejected"
                   [] step = "pause" -> "pausing"
                   [] step = "return" -> "resolved"
                   [] OTHER -> pc
        /\ results' = IF step \in {"pause", "dispatch", "return"}
                      THEN results \o BatchResults(s, batches[batchIndex])
                      ELSE results
        /\ idles' = IF step = "pause" THEN idles + 1 ELSE idles
        /\ batchIndex' = IF step = "dispatch" THEN batchIndex + 1 ELSE batchIndex
        /\ queue' = l2.queue
        /\ active' = l2.active
        /\ started' = l2.started
        /\ peakInFlight' = Max(peakInFlight, Cardinality(l2.active))
  /\ UNCHANGED <<args, outside, toProcess, batches, streamVars, requested, returnCalled>>

\* A callback of the kind "throws" may throw on any call.  Once one call has
\* thrown and processVideos has rejected, nothing awaits the later promises
\* and their calls are taken to return.
AttemptCompletes ==
  \E pos \in active, outcome \in FetchOutcomes,
     cbThrows \in (IF onProgress = "throws" /\ pc = "running" THEN BOOLEAN ELSE {FALSE}) :
    CompleteAttempt(pos, outcome, cbThrows)

\* setTimeout(resolve, pauseDuration) fires: the loop starts the next batch.
PauseElapsed ==
  /\ pc = "pausing"
  /\ pc' = "running"
  /\ DispatchBatch(batchIndex + 1, batches)
  /\ UNCHANGED <<args, outside, toProcess, batches, settled, results, completed, streamVars,
                 completionOrder, progressCalls, idles, requested, returnCalled>>

NextCollect ==
  \/ CallProcessVideos
  \/ PartitionLoop
  \/ AttemptCompletes
  \/ PauseElapsed

SpecCollect == InitCollect /\ [][NextCollect]_vars

\* processVideos over a non-empty work list, with fetch attempts that all end,
\* timers that all fire, and a callback, if any, that returns.
InitCollectFair ==
  /\ InitCollect
  /\ onProgress # "throws"
  /\ \E i \in 1..Len(videos) : videos[i].videoId \notin skipIds

SpecCollectFair ==
  /\ InitCollectFair
  /\ [][NextCollect]_vars
  /\ WF_vars(CallProcessVideos)
  /\ WF_vars(PartitionLoop)
  /\ WF_vars(AttemptCompletes)
  /\ WF_vars(PauseElapsed)

\* The pacing scenario of the design: five candidates, pauseAfter = 2 and a
\* pause of 100 ms, under every concurrency.
InitPacingScenario ==
  /\ mode = "collect"
  /\ videos = [i \in 1..5 |-> [videoId |-> "a"]]
  /\ skipIds \in {{}, {"b"}}
  /\ concurrency \in 1..MaxConcurrency
  /\ pauseAfter = 2
  /\ pauseDuration = 100
  /\ onProgress = "none"
  /\ RunInit
  /\ pc = "init"
  /\ gen = "unused"
  /\ OutsideIdle

\* Collect mode over the bounded arguments and over the pacing scenario.
InitCollectPacing == InitCollect \/ InitPacingScenario

SpecCollectPacing == InitCollectPacing /\ [][NextCollect]_vars

\* ------------------------------------------------------- streamVideos
\* The generator object and its consumer.  gen is the generator's state:
\*   suspendedStart  created, body not yet entered
\*   awaitingFetch   inside `await limit(...)`, one attempt in flight
\*   suspendedYield  stopped at `yield result`, no request queued
\*   pausing         inside the setTimeout of the rate limiting
\*   completed       the body has returned
\* pendingNext counts the next() calls not yet answered, pendingReturn says a
\* return() call is waiting behind them.
\* onProgress is not among the options streamVideos takes out of its argument:
\* it stays in fetchOptions and is never called, so a callback that throws is
\* not told apart here from one that returns.
InitStream ==
  /\ mode = "stream"
  /\ ArgsInit
  /\ onProgress \in OnProgressKinds \ {"throws"}
  /\ RunInit
  /\ pc = "unused"
  /\ gen = "suspendedStart"
  /\ OutsideIdle

Generator ==
  [gen |-> gen, cursor |-> cursor, processedInBatch |-> processedInBatch,
   pendingNext |-> pendingNext, pendingReturn |-> pendingReturn,
   lim |-> Limiter, idles |-> idles]

\* The generator has finished: every queued request is answered with done.
Finish(g) == [g EXCEPT !.gen = "completed", !.pendingNext = 0, !.pendingReturn = FALSE]

\* Mutant: the loop hands the next two entries to limit() before it awaits
\* the first of them.
LoopHead_TwoAhead(g, tp) ==
  IF g.cursor < Len(tp)
  THEN LET first == LimitCall(g.lim, tp[g.cursor + 1])
       IN [g EXCEPT !.gen = "awaitingFetch", !.cursor = @ + 1,
                    !.lim = IF g.cursor + 1 < Len(tp)
                            THEN LimitCall(first, tp[g.cursor + 2]) ELSE first]
  ELSE Finish(g)

\* for (const meta of toProcess): take the next entry and await limit(...) on
\* it, or leave the loop and return.
LoopHead(g, tp) ==
  IF g.cursor < Len(tp)
  THEN [g EXCEPT !.gen = "awaitingFetch", !.cursor = @ + 1,
                 !.lim = LimitCall(g.lim, tp[g.cursor + 1])]
  ELSE Finish(g)

\* The code between `yield result` and the end of the loop body.
AfterYield(g, tp) ==
  LET n == g.processedInBatch + 1
  IN IF n >= pauseAfter
     THEN IF pauseDuration > 0
          THEN [g EXCEPT !.gen = "pausing", !.processedInBatch = 0, !.idles = @ + 1]
          ELSE LoopHead([g EXCEPT !.processedInBatch = 0], tp)
     ELSE LoopHead([g EXCEPT !.processedInBatch = n], tp)

\* Mutant: the generator does not wait to be asked, it runs on after a yield
\* whether or not a request is queued.
Yield_Eager(g, tp) ==
  AfterYield([g EXCEPT !.pendingNext = Max(0, @ - 1)], tp)

\* `yield result`: the oldest request is answered; the generator goes on when
\* another next() is queued, returns when a return() is queued, and is
\* suspended otherwise.
Yield(g, tp) ==
  LET h == [g EXCEPT !.pendingNext = @ - 1]
  IN IF h.pendingNext > 0 THEN AfterYield(h, tp)
     ELSE IF h.pendingReturn THEN Finish(h)
     ELSE [h EXCEPT !.gen = "suspendedYield"]

\* Mutant: the loop starts at the second entry, as an index loop from 1 would.
EnterBody_SkipsFirst(g, tp) == LoopHead([g EXCEPT !.cursor = 1], tp)

\* The body from its start to the first await.
EnterBody(g, tp) == IF tp = <<>> THEN Finish(g) ELSE LoopHead(g, tp)

SetGenerator(g) ==
  /\ gen' = g.gen
  /\ cursor' = g.cursor
  /\ processedInBatch' = g.processedInBatch
  /\ pendingNext' = g.pendingNext
  /\ pendingReturn' = g.pendingReturn
  /\ queue' = g.lim.queue
  /\ active' = g.lim.active
  /\ started' = g.lim.started
  /\ idles' = g.idles
  /\ peakInFlight' = Max(peakInFlight, Cardinality(g.lim.active))

\* The consumer calls next().
ConsumerNext ==
  /\ mode = "stream"
  /\ ~returnCalled
  /\ requested <= Len(videos)
  /\ requested' = requested + 1
  /\ LET g == [Generator EXCEPT !.pendingNext = @ + 1]
     IN CASE gen = "suspendedStart" ->
               LET tp == FilterSkipped(videos, skipIds, 1)
               IN /\ toProcess' = tp
                  /\ SetGenerator(EnterBody(g, tp))
          [] gen = "suspendedYield" ->
               /\ SetGenerator(AfterYield(g, toProcess))
               /\ UNCHANGED toProcess
          [] gen \in {"awaitingFetch", "pausing"} ->
               /\ SetGenerator(g)
               /\ UNCHANGED toProcess
          [] gen \in {"completed", "threw"} ->
               /\ SetGenerator(Generator)
               /\ UNCHANGED toProcess
  /\ UNCHANGED <<args, outside, pc, batches, batchIndex, settled, results, completed,
                 yielded, completionOrder, progressCalls, returnCalled>>

\* The consumer calls return() (a for await loop that is left early).
ConsumerReturn ==
  /\ mode = "stream"
  /\ ~returnCalled
  /\ gen \notin {"completed", "threw"}
  /\ returnCalled' = TRUE
  /\ IF gen \in {"suspendedStart", "suspendedYield"}
     THEN SetGenerator(Finish(Generator))
     ELSE SetGenerator([Generator EXCEPT !.pendingReturn = TRUE])
  /\ UNCHANGED <<args, outside, pc, toProcess, batches, batchIndex, settled, results, completed,
                 yielded, completionOrder, progressCalls, requested>>

\* Mutant: only successful results are yielded (if (result.transcript) yield
\* result); after a failure the loop body goes on without answering the
\* request.
StreamComplete_SwallowsFailures(pos, outcome) ==
  /\ gen = "awaitingFetch"
  /\ pos \in active
  /\ LET one == StreamProcessOne(pos, outcome)
         g == [Generator EXCEPT !.lim = LimitNext(Limiter, pos)]
     IN /\ completionOrder' = Append(completionOrder, [pos |-> pos, kind |-> outcome.kind])
        /\ IF outcome.kind # "transcript"
           THEN /\ yielded' = yielded
                /\ SetGenerator(AfterYield(g, toProcess))
           ELSE /\ yielded' = Append(yielded, one.result)
                /\ SetGenerator(Yield(g, toProcess))
  /\ UNCHANGED <<args, outside, pc, toProcess, batches, batchIndex, settled, results, completed,
                 progressCalls, requested, returnCalled>>

\* fetchTranscript of the attempt in flight ends with `outcome`: the limited
\* function returns the result, the limiter moves on, the result is yielded.
StreamComplete(pos, outcome) ==
  /\ gen = "awaitingFetch"
  /\ pos \in active
  /\ LET one == StreamProcessOne(pos, outcome)
         g == [Generator EXCEPT !.lim = LimitNext(Limiter, pos)]
     IN /\ completionOrder' = Append(completionOrder, [pos |-> pos, kind |-> outcome.kind])
        /\ IF one.thrown
           THEN \* `await limit(...)` throws: the generator ends with the error
                /\ yielded' = yielded
                /\ SetGenerator([Finish(g) EXCEPT !.gen = "threw"])
           ELSE /\ yielded' = Append(yielded, one.result)
                /\ SetGenerator(Yield(g, toProcess))
  /\ UNCHANGED <<args, outside, pc, toProcess, batches, batchIndex, settled, results, completed,
                 progressCalls, requested, returnCalled>>

StreamAttemptCompletes ==
  \E pos \in active, outcome \in FetchOutcomes : StreamComplete(pos, outcome)

\* setTimeout(resolve, pauseDuration) fires: back to the head of the loop.
StreamPauseElapsed ==
  /\ gen = "pausing"
  /\ SetGenerator(LoopHead(Generator, toProcess))
  /\ UNCHANGED <<args, outside, pc, toProcess, batches, batchIndex, settled, results, completed,
                 yielded, completionOrder, progressCalls, requested, returnCalled>>

NextStream ==
  \/ ConsumerNext
  \/ ConsumerReturn
  \/ StreamAttemptCompletes
  \/ StreamPauseElapsed

SpecStream == InitStream /\ [][NextStream]_vars

\* A consumer that keeps requesting items and never leaves early (for await
\* run to its end), over fetch attempts that all terminate and timers that
\* all fire.  No action of streamVideos reads onProgress; the runs are taken
\* without a callback.
NextStreamDrain ==
  \/ ConsumerNext
  \/ StreamAttemptCompletes
  \/ StreamPauseElapsed

InitStreamDrain == InitStream /\ onProgress = "none"

SpecStreamDrain ==
  /\ InitStreamDrain
  /\ [][NextStreamDrain]_vars
  /\ WF_vars(ConsumerNext)
  /\ WF_vars(StreamAttemptCompletes)
  /\ WF_vars(StreamPauseElapsed)

\* Either mode.
Init == InitCollect \/ InitStream

Next == NextCollect \/ NextStream

Spec == Init /\ [][Next]_vars

\* ------------------------------------------------- mergeVideoSources
\* The scheduler is not running.
SchedulerIdle ==
  /\ videos = <<>>
  /\ skipIds = {}
  /\ concurrency = 1
  /\ pauseAfter = 1
  /\ pauseDuration = 0
  /\ onProgress = "none"
  /\ RunInit
  /\ pc = "unused"
  /\ gen = "unused"

\* WatchHistoryMeta.source, the provenance of an entry.
Provenances == {"history", "watch_later", "manual"}

\* The entries handed to mergeVideoSources: a videoId and a provenance.
SourceMeta == [videoId : VideoIds, source : Provenances]

RECURSIVE SumTo(_, _)
SumTo(lens, k) == IF k = 0 THEN 0 ELSE lens[k] + SumTo(lens, k - 1)

\* The arrays of the lengths `lens` that hold, one after the other, the
\* entries of `flat`.
SplitInto(flat, lens) ==
  [s \in 1..Len(lens) |-> SubSeq(flat, SumTo(lens, s - 1) + 1, SumTo(lens, s))]

\* An entry of a source: the object at index i of source s, and its contents.
EntryAt(srcs, s, i) == [s |-> s, i |-> i, meta |-> srcs[s][i]]

\* seen.has(videoId)
SeenHas(seen, videoId) == \E k \in 1..Len(seen) : seen[k].key = videoId

\* Mutant: seen.set without the test. Map.set on a key that is present
\* replaces the value and leaves the key where it was inserted.
SeenSet_Overwrites(seen, entry) ==
  IF SeenHas(seen, entry.meta.videoId)
  THEN [k \in 1..Len(seen) |->
          IF seen[k].key = entry.meta.videoId
          THEN [key |-> seen[k].key, value |-> entry] ELSE seen[k]]
  ELSE Append(seen, [key |-> entry.meta.videoId, value |-> entry])

\* if (!seen.has(meta.videoId)) seen.set(meta.videoId, meta).  The Map is the
\* sequence of its entries in insertion order.
SeenSet(seen, entry) ==
  IF SeenHas(seen, entry.meta.videoId) THEN seen
  ELSE Append(seen, [key |-> entry.meta.videoId, value |-> entry])

\* for (const meta of source), from index i on
RECURSIVE MergeSource(_, _, _, _)
MergeSource(seen, srcs, s, i) ==
  IF i > Len(srcs[s]) THEN seen
  ELSE MergeSource(SeenSet(seen, EntryAt(srcs, s, i)), srcs, s, i + 1)

\* for (const source of sources), from source s on
RECURSIVE MergeSources(_, _, _)
MergeSources(seen, srcs, s) ==
  IF s > Len(srcs) THEN seen
  ELSE MergeSources(MergeSource(seen, srcs, s, 1), srcs, s + 1)

\* mergeVideoSources(...sources): Array.from(seen.values())
MergeVideoSources(srcs) ==
  LET seen == MergeSources(<<>>, srcs, 1)
  IN [k \in 1..Len(seen) |-> seen[k].value]

\* Every call with at most MaxSources sources holding at most MaxVideos
\* entries in all.
InitMerge ==
  /\ mode = "merge"
  /\ SchedulerIdle
  /\ \E n \in 0..MaxSources :
       \E lens \in [1..n -> 0..MaxVideos] :
         /\ SumTo(lens, n) <= MaxVideos
         /\ \E flat \in [1..SumTo(lens, n) -> SourceMeta] :
              sources = SplitInto(flat, lens)
  /\ merged = <<>>
  /\ tracks = <<>>
  /\ languages = <<>>
  /\ selected = 0
  /\ returned = FALSE
  /\ IoIdle

CallMergeVideoSources ==
  /\ mode = "merge"
  /\ ~returned
  /\ merged' = MergeVideoSources(sources)
  /\ returned' = TRUE
  /\ UNCHANGED <<args, collectVars, limitVars, streamVars, obsVars, sources, selectVars,
                 ioVars>>

NextMerge == CallMergeVideoSources

SpecMerge == InitMerge /\ [][NextMerge]_vars

\* ---------------------------------------------------- track selection
\* A language code and a language tag are strings, here the sequences of
\* their characters: en, en-US, es, fr for the tracks and en, es, de for the
\* preferred languages.
LanguageCodes ==
  {<<"e", "n">>, <<"e", "n", "-", "U", "S">>, <<"e", "s">>, <<"f", "r">>}

LanguageTags == {<<"e", "n">>, <<"e", "s">>, <<"d", "e">>}

\* kind: "asr" marks an auto-generated track, a manual track has no kind.
Asr == "asr"

CaptionTrack == [languageCode : LanguageCodes, kind : {Asr, Absent}]

IsManual(track) == track.kind # Asr

\* languageCode.startsWith(tag)
StartsWith(code, tag) == Len(tag) <= Len(code) /\ SubSeq(code, 1, Len(tag)) = tag

\* The index of the first track of those at the indices in `at`.
First(at) == CHOOSE k \in at : \A j \in at : k <= j

\* Mutant: the first track that matches the language, manual or not.
SelectForLanguage_FirstMatch(trs, tag) ==
  LET matching == {k \in 1..Len(trs) : StartsWith(trs[k].languageCode, tag)}
  IN IF matching # {} THEN First(matching) ELSE 0

\* The track chosen for one preferred language: the first manual track that
\* matches it, else the first track that matches it, else none (0).
SelectForLanguage(trs, tag) ==
  LET matching == {k \in 1..Len(trs) : StartsWith(trs[k].languageCode, tag)}
      manual == {k \in matching : IsManual(trs[k])}
  IN IF manual # {} THEN First(manual)
     ELSE IF matching # {} THEN First(matching)
     ELSE 0

\* Mutant: no fallback, none is selected when no preferred language matches.
RECURSIVE SelectFrom_NoFallback(_, _, _)
SelectFrom_NoFallback(trs, langs, l) ==
  IF l > Len(langs) THEN 0
  ELSE LET k == SelectForLanguage(trs, langs[l])
       IN IF k # 0 THEN k ELSE SelectFrom_NoFallback(trs, langs, l + 1)

\* The preferred languages from index l on, in order; the first track of the
\* list when none of them matches.
RECURSIVE SelectFrom(_, _, _)
SelectFrom(trs, langs, l) ==
  IF l > Len(langs) THEN 1
  ELSE LET k == SelectForLanguage(trs, langs[l])
       IN IF k # 0 THEN k ELSE SelectFrom(trs, langs, l + 1)

\* Mutant: manual tracks are looked for in every preferred language before
\* an auto-generated track is accepted in any.
RECURSIVE ManualFrom(_, _, _)
ManualFrom(trs, langs, l) ==
  IF l > Len(langs) THEN 0
  ELSE LET manual == {k \in 1..Len(trs) : /\ StartsWith(trs[k].languageCode, langs[l])
                                           /\ IsManual(trs[k])}
       IN IF manual # {} THEN First(manual) ELSE ManualFrom(trs, langs, l + 1)

Select_ManualAcrossLanguages(trs, langs) ==
  IF trs = <<>> THEN 0
  ELSE IF ManualFrom(trs, langs, 1) # 0 THEN ManualFrom(trs, langs, 1)
  ELSE SelectFrom(trs, langs, 1)

\* select(tracks, preferredLanguages): the index of the track selected, 0 for
\* none.
Select(trs, langs) == IF trs = <<>> THEN 0 ELSE SelectFrom(trs, langs, 1)

InitSelect ==
  /\ mode = "select"
  /\ SchedulerIdle
  /\ sources = <<>>
  /\ merged = <<>>
  /\ tracks \in SeqsUpTo(CaptionTrack, MaxTracks)
  /\ languages \in SeqsUpTo(LanguageTags, MaxLanguages)
  /\ selected = 0
  /\ returned = FALSE
  /\ IoIdle

CallSelect ==
  /\ mode = "select"
  /\ ~returned
  /\ selected' = Select(tracks, languages)
  /\ returned' = TRUE
  /\ UNCHANGED <<args, collectVars, limitVars, streamVars, obsVars, mergeVars,
                 tracks, languages, ioVars>>

NextSelect == CallSelect

SpecSelect == InitSelect /\ [][NextSelect]_vars

\* ------------------------------- fetchTranscript, fetchVideoInfo, get, info
\* The characters of a video identifier, [A-Za-z0-9_-].
IdChars ==
  {"a", "b", "c", "d", "e", "f", "g", "h", "i", "j", "k", "l", "m", "n", "o", "p", "q",
   "r", "s", "t", "u", "v", "w", "x", "y", "z", "A", "B", "C", "D", "E", "F", "G", "H",
   "I", "J", "K", "L", "M", "N", "O", "P", "Q", "R", "S", "T", "U", "V", "W", "X", "Y",
   "Z", "0", "1", "2", "3", "4", "5", "6", "7", "8", "9", "_", "-"}

VideoIdLength == 11

\* dQw4w9WgXcQ
SampleVideoId == <<"d", "Q", "w", "4", "w", "9", "W", "g", "X", "c", "Q">>

\* "invalid"
SampleInvalid == <<"i", "n", "v", "a", "l", "i", "d">>

\* The value of a videoId that is null or empty, which `!videoId` takes for
\* no identifier.
NoId == <<>>

\* Exactly 11 characters of [A-Za-z0-9_-].
IsVideoId(text) ==
  Len(text) = VideoIdLength /\ \A k \in 1..Len(text) : text[k] \in IdChars

\* The shapes of input an identifier is taken from: the bare identifier, the
\* watch URL (v parameter), the short link (path segment) and the embed URL.
ResolvableShapes == {"bare", "watch", "short", "embed"}

\* Mutant: any non-empty string passes for an identifier.
ExtractVideoId_AnyText(inp) ==
  IF inp.shape \in ResolvableShapes THEN inp.text ELSE NoId

\* extractVideoId(input): the identifier when the input is one or is a URL of
\* a recognised shape that carries one, null otherwise.
ExtractVideoId(inp) ==
  IF inp.shape \in ResolvableShapes /\ IsVideoId(inp.text) THEN inp.text ELSE NoId

VideoInputs ==
  {[shape |-> "bare", text |-> SampleVideoId],
   [shape |-> "watch", text |-> SampleVideoId],
   [shape |-> "bare", text |-> SampleInvalid],
   [shape |-> "other", text |-> SampleVideoId]}

\* http://host:8080, ftp://host and a string that is no URL.
ProxyOptions ==
  {NoProxy,
   [given |-> TRUE, parses |-> TRUE, protocol |-> "http:"],
   [given |-> TRUE, parses |-> TRUE, protocol |-> "ftp:"],
   [given |-> TRUE, parses |-> FALSE, protocol |-> ""]}

\* validateProxyUrl(url)
ValidateProxyUrl(proxy) ==
  proxy.parses /\ proxy.protocol \in {"http:", "https:", "socks4:", "socks5:"}

\* The preference lists a fetch is made with: none, one language that no
\* track of the model has, and two languages.
FetchLanguages == {<<>>, <<<<"d", "e">>>>, <<<<"e", "s">>, <<"e", "n">>>>}

Commands == {"get", "info", "fetchTranscript"}

\* The messages of the errors.
InvalidVideoId == "Invalid video ID"
NoCaptionsAvailable == "No captions available"
NoSuitableTrack == "No suitable caption track found"
CaptionTrackEmpty == "Caption track is empty"
TransportFailures == {"HTTP 429", "AbortError"}

\* What the player endpoint answers: a failure, or a list of caption tracks
\* (empty when the response has no captionTracks).
CatalogOutcomes ==
  {[ok |-> FALSE, message |-> m, tracks |-> <<>>] : m \in TransportFailures}
    \cup {[ok |-> TRUE, message |-> Absent, tracks |-> t] :
             t \in SeqsUpTo(CaptionTrack, MaxTracks)}

\* The segs of an event: none, one fragment, two fragments.
FragmentLists == {<<>>, <<"Hello ">>, <<"Hello ", "world">>}

\* The events of a payload: the k-th starts at (k - 1) * 5000 ms and lasts
\* 5000 ms.
EventsOf(segsList) ==
  [k \in 1..Len(segsList) |->
     [tStartMs |-> (k - 1) * 5000, dDurationMs |-> 5000, segs |-> segsList[k]]]

SegmentOutcomes ==
  {[ok |-> FALSE, message |-> m, events |-> <<>>] : m \in TransportFailures}
    \cup {[ok |-> TRUE, message |-> Absent, events |-> EventsOf(l)] :
             l \in SeqsUpTo(FragmentLists, MaxEvents)}

\* Mutant: every event becomes a segment, with or without fragments.
RECURSIVE Normalize_KeepsAll(_)
Normalize_KeepsAll(evs) ==
  IF evs = <<>> THEN <<>>
  ELSE <<[text |-> Head(evs).segs, start |-> Head(evs).tStartMs \div 1000,
          duration |-> Head(evs).dDurationMs \div 1000]>>
         \o Normalize_KeepsAll(Tail(evs))

\* The normalizer: events without fragments are dropped, every other event
\* becomes one segment, its text the fragments joined (here: the fragments
\* in order), its times in seconds.
RECURSIVE Normalize(_)
Normalize(evs) ==
  IF evs = <<>> THEN <<>>
  ELSE IF Head(evs).segs = <<>> THEN Normalize(Tail(evs))
  ELSE <<[text |-> Head(evs).segs, start |-> Head(evs).tStartMs \div 1000,
          duration |-> Head(evs).dDurationMs \div 1000]>>
         \o Normalize(Tail(evs))

\* The part of the state a fetch and its command write.
FetchState ==
  [stage |-> stage, trail |-> trail, failure |-> failure,
   catalogRequests |-> catalogRequests, segmentRequests |-> segmentRequests,
   tracks |-> tracks, selected |-> selected, events |-> events, segments |-> segments,
   infoTracks |-> infoTracks, proxyExamined |-> proxyExamined, reported |-> reported,
   exitStatus |-> exitStatus]

SetFetchState(f) ==
  /\ stage' = f.stage
  /\ trail' = f.trail
  /\ failure' = f.failure
  /\ catalogRequests' = f.catalogRequests
  /\ segmentRequests' = f.segmentRequests
  /\ tracks' = f.tracks
  /\ selected' = f.selected
  /\ events' = f.events
  /\ segments' = f.segments
  /\ infoTracks' = f.infoTracks
  /\ proxyExamined' = f.proxyExamined
  /\ reported' = f.reported
  /\ exitStatus' = f.exitStatus

\* The pipeline enters a state.
Enter(f, st) == [f EXCEPT !.stage = st, !.trail = Append(@, st)]

\* throw new Error(message): the failure exit.
Throw(f, message) == [Enter(f, "FAILED") EXCEPT !.failure = message]

\* The request to the player endpoint is sent.
RequestCatalog(f) == [Enter(f, "CATALOG") EXCEPT !.catalogRequests = @ + 1]

\* fetchTranscript up to its first await: RESOLVE, then the catalog request.
FetchTranscriptCall(f, inp) ==
  LET g == Enter(f, "RESOLVE")
  IN IF ExtractVideoId(inp) = NoId THEN Throw(g, InvalidVideoId)
     ELSE RequestCatalog(g)

\* fetchVideoInfo up to its first await.
FetchVideoInfoCall(f, inp) == RequestCatalog(f)

\* The catch clause of a command: console.error, process.exit(1).
CommandFails(f) == [f EXCEPT !.reported = "failed", !.exitStatus = "1"]

\* parseProxy(options.proxy): an option that is given and is not valid ends
\* the process.
ParseProxy(f, proxy) ==
  IF proxy.given /\ ~ValidateProxyUrl(proxy)
  THEN [f EXCEPT !.proxyExamined = TRUE, !.reported = "invalid proxy", !.exitStatus = "1"]
  ELSE [f EXCEPT !.proxyExamined = TRUE]

\* Mutant: the proxy option is parsed before the video argument is looked at.
CommandCall_ProxyFirst(f, cmd, inp, proxy) ==
  LET g == ParseProxy(f, proxy)
      videoId == ExtractVideoId(inp)
  IN IF g.exitStatus # Running THEN g
     ELSE IF videoId = NoId
     THEN [g EXCEPT !.reported = "invalid video", !.exitStatus = "1"]
     ELSE IF cmd = "get"
     THEN LET h == FetchTranscriptCall(g, [shape |-> "bare", text |-> videoId])
          IN IF h.stage = "FAILED" THEN CommandFails(h) ELSE h
     ELSE FetchVideoInfoCall(g, [shape |-> "bare", text |-> videoId])

\* The action of the get and of the info command up to its first await:
\* extractVideoId, parseProxy, then the fetch.
CommandCall(f, cmd, inp, proxy) ==
  LET videoId == ExtractVideoId(inp)
  IN IF videoId = NoId
     THEN [f EXCEPT !.reported = "invalid video", !.exitStatus = "1"]
     ELSE LET g == ParseProxy(f, proxy)
          IN IF g.exitStatus # Running THEN g
             ELSE IF cmd = "get"
             THEN LET h == FetchTranscriptCall(g, [shape |-> "bare", text |-> videoId])
                  IN IF h.stage = "FAILED" THEN CommandFails(h) ELSE h
             ELSE FetchVideoInfoCall(g, [shape |-> "bare", text |-> videoId])

\* What can be invoked: a command with its argument and options, or
\* fetchTranscript itself.  The info command has no language option, and the
\* proxy of a direct call is not examined by the code modelled here.
Invocations ==
  {i \in [cmd : Commands, inp : VideoInputs, proxy : ProxyOptions, langs : FetchLanguages] :
     /\ i.cmd = "info" => i.langs = <<>>
     /\ i.cmd = "fetchTranscript" => i.proxy = NoProxy}

InitFetch ==
  /\ mode = "fetch"
  /\ SchedulerIdle
  /\ sources = <<>>
  /\ merged = <<>>
  /\ tracks = <<>>
  /\ languages = <<>>
  /\ selected = 0
  /\ returned = FALSE
  /\ IoIdle

Invoke ==
  /\ mode = "fetch"
  /\ command = "none"
  /\ \E i \in Invocations :
       /\ command' = i.cmd
       /\ input' = i.inp
       /\ proxyOption' = i.proxy
       /\ languages' = i.langs
       /\ SetFetchState(IF i.cmd = "fetchTranscript"
                        THEN FetchTranscriptCall(FetchState, i.inp)
                        ELSE CommandCall(FetchState, i.cmd, i.inp, i.proxy))
  /\ UNCHANGED <<args, collectVars, limitVars, streamVars, obsVars, mergeVars, returned,
                 besideFetch>>

\* The rest of fetchTranscript once the catalog is there: an empty catalog
\* is a failure, otherwise SELECT, then the request for the track's events.
AfterCatalog(f, langs) ==
  IF f.tracks = <<>> THEN Throw(f, NoCaptionsAvailable)
  ELSE LET g == [Enter(f, "SELECT") EXCEPT !.selected = Select(f.tracks, langs)]
       IN IF g.selected = 0 THEN Throw(g, NoSuitableTrack)
          ELSE [Enter(g, "SEGMENTS") EXCEPT !.segmentRequests = @ + 1]

\* Mutant: the info command treats an empty list as a failure.
InfoReports_FailsOnEmpty(f) ==
  IF f.infoTracks = <<>>
  THEN [f EXCEPT !.reported = "failed", !.exitStatus = "1"]
  ELSE [f EXCEPT !.reported = "tracks", !.exitStatus = "0"]

\* The rest of the info command: the tracks are listed, or 'No captions
\* available for this video' is printed; either way the action returns.
InfoReports(f) ==
  IF f.infoTracks = <<>>
  THEN [f EXCEPT !.reported = "no captions", !.exitStatus = "0"]
  ELSE [f EXCEPT !.reported = "tracks", !.exitStatus = "0"]

\* The player endpoint has answered.
CatalogResponds ==
  /\ mode = "fetch"
  /\ stage = "CATALOG"
  /\ \E outcome \in CatalogOutcomes :
       LET f == [FetchState EXCEPT !.tracks = outcome.tracks]
       IN SetFetchState(
            IF command = "info"
            THEN IF outcome.ok
                 THEN InfoReports([Enter(f, "DONE") EXCEPT !.infoTracks = outcome.tracks])
                 ELSE CommandFails(Throw(f, outcome.message))
            ELSE LET g == IF outcome.ok THEN AfterCatalog(f, languages)
                          ELSE Throw(f, outcome.message)
                 IN IF command = "get" /\ g.stage = "FAILED" THEN CommandFails(g) ELSE g)
  /\ UNCHANGED <<args, collectVars, limitVars, streamVars, obsVars, mergeVars, returned,
                 besideFetch,
                 command, input, proxyOption, languages>>

\* Mutant: an empty result is answered with a second request for the events.
AfterSegments_RetriesOnEmpty(f) ==
  LET segs == Normalize(f.events)
  IN IF segs = <<>> THEN [Enter(f, "SEGMENTS") EXCEPT !.segmentRequests = @ + 1]
     ELSE [Enter(f, "DONE") EXCEPT !.segments = segs]

\* The rest of fetchTranscript once the events are there: normalize, fail on
\* an empty result, else DONE.
AfterSegments(f) ==
  LET segs == Normalize(f.events)
  IN IF segs = <<>> THEN Throw(f, CaptionTrackEmpty)
     ELSE [Enter(f, "DONE") EXCEPT !.segments = segs]

\* The rest of the get command: the transcript is printed, or written to the
\* file of --output, which may fail.
GetReports(f, out) ==
  IF f.stage = "FAILED" \/ out = "write fails" THEN CommandFails(f)
  ELSE [f EXCEPT !.reported = out, !.exitStatus = "0"]

\* The track's baseUrl has answered.
SegmentsRespond ==
  /\ mode = "fetch"
  /\ stage = "SEGMENTS"
  /\ \E outcome \in SegmentOutcomes, out \in {"printed", "written", "write fails"} :
       LET f == [FetchState EXCEPT !.events = outcome.events]
           g == IF outcome.ok THEN AfterSegments(f) ELSE Throw(f, outcome.message)
       IN SetFetchState(IF command = "get" THEN GetReports(g, out) ELSE g)
  /\ UNCHANGED <<args, collectVars, limitVars, streamVars, obsVars, mergeVars, returned,
                 besideFetch,
                 command, input, proxyOption, languages>>

NextFetch ==
  \/ Invoke
  \/ CatalogResponds
  \/ SegmentsRespond

SpecFetch == InitFetch /\ [][NextFetch]_vars

\* ------------------------------ loadWatchHistory, loadWatchLater, fromVideoIds
\* "abc"
ShortId == <<"a", "b", "c">>

\* A titleUrl: absent, a string new URL() rejects, or a URL with its
\* hostname, its query parameters in order and its pathname.
NoUrl ==
  [given |-> FALSE, parses |-> FALSE, hostname |-> <<>>, query |-> <<>>, pathname |-> <<>>]

NotAUrl ==
  [given |-> TRUE, parses |-> FALSE, hostname |-> <<>>, query |-> <<>>, pathname |-> <<>>]

Url(hostname, query, pathname) ==
  [given |-> TRUE, parses |-> TRUE, hostname |-> hostname, query |-> query,
   pathname |-> pathname]

\* /watch
WatchPath == <<"/", "w", "a", "t", "c", "h">>

\* youtube.com, youtu.be, www.youtube.com, example.com and notyoutube.com.
YoutubeCom == <<"y", "o", "u", "t", "u", "b", "e", ".", "c", "o", "m">>
YoutuBe == <<"y", "o", "u", "t", "u", ".", "b", "e">>
WwwYoutubeCom == <<"w", "w", "w", ".">> \o YoutubeCom
ExampleCom == <<"e", "x", "a", "m", "p", "l", "e", ".", "c", "o", "m">>
NotYoutubeCom == <<"n", "o", "t">> \o YoutubeCom

\* https://www.youtube.com/watch?v=dQw4w9WgXcQ, .../watch?v=abc,
\* https://www.youtube.com/watch (no v), https://youtu.be/dQw4w9WgXcQ,
\* https://youtu.be/, https://example.com/watch?v=dQw4w9WgXcQ and
\* https://notyoutube.com/watch?v=dQw4w9WgXcQ.
TitleUrls ==
  {NoUrl,
   NotAUrl,
   Url(WwwYoutubeCom, <<<<"v", SampleVideoId>>>>, WatchPath),
   Url(WwwYoutubeCom, <<<<"v", ShortId>>>>, WatchPath),
   Url(WwwYoutubeCom, <<>>, WatchPath),
   Url(YoutuBe, <<>>, <<"/">> \o SampleVideoId),
   Url(YoutuBe, <<>>, <<"/">>),
   Url(ExampleCom, <<<<"v", SampleVideoId>>>>, WatchPath),
   Url(NotYoutubeCom, <<<<"v", SampleVideoId>>>>, WatchPath)}

\* text.includes(part)
Includes(text, part) ==
  \E i \in 0..(Len(text) - Len(part)) : SubSeq(text, i + 1, i + Len(part)) = part

\* hostname.includes('youtube.com')
IncludesYoutube(hostname) == Includes(hostname, YoutubeCom)

\* searchParams.get(key): the value of the first parameter of that name,
\* null when there is none.
SearchParamsGet(query, key) ==
  LET at == {k \in 1..Len(query) : query[k][1] = key}
  IN IF at = {} THEN NoId ELSE query[First(at)][2]

\* extractVideoIdFromUrl(url)
ExtractVideoIdFromUrl(url) ==
  IF ~url.parses THEN NoId
  ELSE IF IncludesYoutube(url.hostname) THEN SearchParamsGet(url.query, "v")
  ELSE IF url.hostname = YoutuBe THEN Tail(url.pathname)
  ELSE NoId

\* The loop of loadWatchHistory over the items from index k on.
RECURSIVE HistoryEntries(_, _)
HistoryEntries(items, k) ==
  IF k > Len(items) THEN <<>>
  ELSE LET url == items[k].titleUrl
           videoId == ExtractVideoIdFromUrl(url)
       IN IF ~url.given \/ videoId = NoId THEN HistoryEntries(items, k + 1)
          ELSE <<[videoId |-> videoId, url |-> url, source |-> "history"]>>
                 \o HistoryEntries(items, k + 1)

\* loadWatchHistory(filePath): file.text() rejects for a missing file,
\* JSON.parse throws for text that is no JSON.
LoadWatchHistory(file) ==
  IF ~file.exists \/ ~file.wellFormed THEN [rejected |-> TRUE, entries |-> <<>>]
  ELSE [rejected |-> FALSE, entries |-> HistoryEntries(file.items, 1)]

\* a || b on strings.
OrElse(a, b) == IF a # <<>> THEN a ELSE b

\* A parsed CSV row, by the columns the loader looks at: 'Video ID',
\* 'video_id' and 'Video Id'; '' where the row has no such column.
CsvRow(videoID, video_id, videoId) ==
  [VideoID |-> videoID, video_id |-> video_id, VideoId |-> videoId]

CsvRows ==
  {CsvRow(SampleVideoId, <<>>, <<>>),
   CsvRow(<<>>, SampleVideoId, <<>>),
   CsvRow(ShortId, <<>>, <<>>),
   CsvRow(<<>>, <<>>, <<>>)}

\* The loop of loadWatchLater over the rows from index k on.
RECURSIVE WatchLaterEntries(_, _)
WatchLaterEntries(rows, k) ==
  IF k > Len(rows) THEN <<>>
  ELSE LET videoId == OrElse(rows[k].VideoID, OrElse(rows[k].video_id, rows[k].VideoId))
       IN IF videoId = NoId THEN WatchLaterEntries(rows, k + 1)
          ELSE <<[videoId |-> videoId, source |-> "watch_later"]>>
                 \o WatchLaterEntries(rows, k + 1)

\* loadWatchLater(filePath): file.text() rejects for a missing file; the CSV
\* parser takes any text.
LoadWatchLater(file) ==
  IF ~file.exists THEN [rejected |-> TRUE, entries |-> <<>>]
  ELSE [rejected |-> FALSE, entries |-> WatchLaterEntries(file.items, 1)]

\* "http"
Http == <<"h", "t", "t", "p">>

\* httpABCDEFG, an identifier that starts with http.
HttpLikeId == Http \o <<"A", "B", "C", "D", "E", "F", "G">>

\* The strings given to fromVideoIds: those of the commands, '', the short
\* link https://youtu.be/dQw4w9WgXcQ and the bare identifier httpABCDEFG.
ManualInputs ==
  VideoInputs \cup {[shape |-> "bare", text |-> <<>>],
                    [shape |-> "short", text |-> SampleVideoId],
                    [shape |-> "bare", text |-> HttpLikeId]}

\* https://www.youtube.com/watch?v=${videoId}
WatchUrl(videoId) == [shape |-> "watch", text |-> videoId]

\* input.startsWith('http'): every URL of the model does, and so does a bare
\* string that begins with these four characters.
StartsWithHttp(inp) == inp.shape # "bare" \/ StartsWith(inp.text, Http)

\* Mutant: the url is always built from the identifier.
RECURSIVE ManualEntries_CanonicalUrl(_, _)
ManualEntries_CanonicalUrl(inputs, k) ==
  IF k > Len(inputs) THEN <<>>
  ELSE LET videoId == ExtractVideoId(inputs[k])
       IN IF videoId = NoId THEN ManualEntries_CanonicalUrl(inputs, k + 1)
          ELSE <<[videoId |-> videoId, url |-> WatchUrl(videoId), source |-> "manual"]>>
                 \o ManualEntries_CanonicalUrl(inputs, k + 1)

\* The loop of fromVideoIds over the inputs from index k on.
RECURSIVE ManualEntries(_, _)
ManualEntries(inputs, k) ==
  IF k > Len(inputs) THEN <<>>
  ELSE LET videoId == ExtractVideoId(inputs[k])
       IN IF videoId = NoId THEN ManualEntries(inputs, k + 1)
          ELSE <<[videoId |-> videoId,
                  url |-> IF StartsWithHttp(inputs[k]) THEN inputs[k] ELSE WatchUrl(videoId),
                  source |-> "manual"]>>
                 \o ManualEntries(inputs, k + 1)

\* fromVideoIds(inputs)
FromVideoIds(inputs) == [rejected |-> FALSE, entries |-> ManualEntries(inputs, 1)]

\* The files a loader is called on: a missing one, one whose text does not
\* parse, and one holding up to MaxItems of the given items.
FilesOf(items) ==
  {NoFile, [exists |-> TRUE, wellFormed |-> FALSE, items |-> <<>>]}
    \cup {[exists |-> TRUE, wellFormed |-> TRUE, items |-> its] :
           its \in SeqsUpTo(items, MaxItems)}

InitLoad ==
  /\ mode = "load"
  /\ SchedulerIdle
  /\ OutsideIdle

CallLoadWatchHistory ==
  /\ mode = "load"
  /\ loader = "none"
  /\ \E file \in FilesOf({[titleUrl |-> u] : u \in TitleUrls}) :
       /\ loader' = "loadWatchHistory"
       /\ loadFile' = file
       /\ loaded' = LoadWatchHistory(file)
  /\ UNCHANGED <<args, collectVars, limitVars, streamVars, obsVars, mergeVars, selectVars,
                 returned, fetchVars, bulkVars, fileVars>>

CallLoadWatchLater ==
  /\ mode = "load"
  /\ loader = "none"
  /\ \E file \in FilesOf(CsvRows) :
       /\ loader' = "loadWatchLater"
       /\ loadFile' = file
       /\ loaded' = LoadWatchLater(file)
  /\ UNCHANGED <<args, collectVars, limitVars, streamVars, obsVars, mergeVars, selectVars,
                 returned, fetchVars, bulkVars, fileVars>>

CallFromVideoIds ==
  /\ mode = "load"
  /\ loader = "none"
  /\ \E inputs \in SeqsUpTo(ManualInputs, MaxItems) :
       /\ loader' = "fromVideoIds"
       /\ loadFile' = [exists |-> TRUE, wellFormed |-> TRUE, items |-> inputs]
       /\ loaded' = FromVideoIds(inputs)
  /\ UNCHANGED <<args, collectVars, limitVars, streamVars, obsVars, mergeVars, selectVars,
                 returned, fetchVars, bulkVars, fileVars>>

NextLoad ==
  \/ CallLoadWatchHistory
  \/ CallLoadWatchLater
  \/ CallFromVideoIds

SpecLoad == InitLoad /\ [][NextLoad]_vars

\* ------------------------------------------------------------ bulk command
\* The candidate lists mergeVideoSources returns: no videoId twice.
UniqueLists ==
  {l \in CandidateLists : \A i, j \in 1..Len(l) : l[i].videoId = l[j].videoId => i = j}

\* JSON.stringify(result) + '\n': the line of a result in the JSONL log.
JsonLine(result) ==
  [meta |-> result.meta, transcript |-> result.transcript, error |-> result.error]

\* The logs an earlier run has left: none, one record, and two records of
\* which the second is a failure.
PriorLogs ==
  {<<>>,
   <<[meta |-> [videoId |-> "a"], transcript |-> "a", error |-> Absent]>>,
   <<[meta |-> [videoId |-> "b"], transcript |-> "b", error |-> Absent],
     [meta |-> [videoId |-> "a"], transcript |-> Null, error |-> UnknownError]>>}

\* The lines a JSONL file can hold besides those appendJsonl writes: a record
\* in the other format ({videoId}), a record whose meta has no videoId or an
\* empty one, a record without any videoId, text that is no JSON, the JSON
\* literal null, and a blank line.
OtherLines ==
  {[videoId |-> "a"],
   [videoId |-> "b"],
   [meta |-> [title |-> "t"], videoId |-> "b"],
   [meta |-> [videoId |-> ""], videoId |-> "a"],
   [transcript |-> Null],
   [text |-> "not json"],
   [literal |-> "null"],
   [text |-> ""]}

\* l.trim() is empty.
IsBlank(line) == "text" \in DOMAIN line /\ line.text = ""

\* JSON.parse(line) throws, or reading record.meta of what it returned does.
LineThrows(line) == "text" \in DOMAIN line \/ "literal" \in DOMAIN line

\* The body of the loop over the lines: what the line adds to ids.
LineIds(line) ==
  IF IsBlank(line) \/ LineThrows(line) THEN {}
  ELSE IF "meta" \in DOMAIN line /\ "videoId" \in DOMAIN line.meta /\ line.meta.videoId # ""
  THEN {line.meta.videoId}
  ELSE IF "videoId" \in DOMAIN line /\ line.videoId # "" THEN {line.videoId}
  ELSE {}

\* Mutant: there is one try around the whole loop, the first line that does
\* not parse ends it.
RECURSIVE LoadProcessedIds_StopsAtMalformed(_)
LoadProcessedIds_StopsAtMalformed(lines) ==
  IF lines = <<>> THEN {}
  ELSE IF IsBlank(Head(lines)) THEN LoadProcessedIds_StopsAtMalformed(Tail(lines))
  ELSE IF LineThrows(Head(lines)) THEN {}
  ELSE LineIds(Head(lines)) \cup LoadProcessedIds_StopsAtMalformed(Tail(lines))

\* Mutant: only the records of successes count as processed
\* (if (record.transcript) ids.add(...)).
LoadProcessedIds_SuccessesOnly(lines) ==
  UNION {IF "transcript" \in DOMAIN lines[k] /\ lines[k].transcript = Null THEN {}
         ELSE LineIds(lines[k]) : k \in 1..Len(lines)}

\* loadProcessedIds(jsonlPath) on a file that is there and can be read: the
\* loop over its lines.
LoadProcessedIds(lines) == UNION {LineIds(lines[k]) : k \in 1..Len(lines)}

\* loadProcessedIds(jsonlPath): the empty set when the file is not there,
\* and when file.text() throws (the outer catch).
LoadProcessedIdsOf(file) ==
  [rejected |-> FALSE, entries |-> <<>>,
   ids |-> IF file.exists /\ file.wellFormed THEN LoadProcessedIds(file.items) ELSE {}]

\* allVideos.filter((v) => !skipIds.has(v.videoId))
BulkToProcess(all, ids) ==
  LET kept == FilterSkipped(all, ids, 1)
  IN [k \in 1..Len(kept) |-> all[kept[k]]]

\* appendJsonl(result, path)
AppendJsonl(lines, result) == Append(lines, JsonLine(result))

\* Mutant: a failure is counted as a failure and as a success.
Tally_FailureTwice(counts, result) ==
  IF result.transcript # Null
  THEN [counts EXCEPT !.successCount = @ + 1]
  ELSE [counts EXCEPT !.successCount = @ + 1, !.failCount = @ + 1]

\* if (result.transcript) successCount++; else failCount++
Tally(counts, result) ==
  IF result.transcript # Null
  THEN [counts EXCEPT !.successCount = @ + 1]
  ELSE [counts EXCEPT !.failCount = @ + 1]

\* The bulk command after mergeVideoSources: its options, the merged list and
\* the log as an earlier run left it.
InitBulk ==
  /\ mode = "stream"
  /\ videos = <<>>
  /\ skipIds = {}
  /\ concurrency \in 1..MaxConcurrency
  /\ pauseAfter \in 0..MaxPauseAfter
  /\ pauseDuration \in PauseDurations
  /\ onProgress = "none"
  /\ RunInit
  /\ pc = "unused"
  /\ gen = "unused"
  /\ sources = <<>>
  /\ merged = <<>>
  /\ tracks = <<>>
  /\ languages = <<>>
  /\ selected = 0
  /\ returned = FALSE
  /\ FetchIdle
  /\ LoadIdle
  /\ FileIdle
  /\ bulk = "start"
  /\ resume \in BOOLEAN
  /\ allVideos \in UniqueLists
  /\ log \in PriorLogs
  /\ successCount = 0
  /\ failCount = 0
  /\ taken = 0
  /\ appending = NoResult
  /\ appends = 0
  /\ interrupted = 0

\* From the --resume option to the for await loop: loadProcessedIds, the
\* filter, the early return when nothing is left, parseProxy, streamVideos().
BulkStart ==
  /\ mode = "stream"
  /\ bulk = "start"
  /\ \E proxy \in ProxyOptions :
       LET ids == IF resume THEN LoadProcessedIds(log) ELSE {}
           tp == BulkToProcess(allVideos, ids)
           f == ParseProxy(FetchState, proxy)
       IN IF tp = <<>>
          THEN /\ bulk' = "done"
               /\ SetFetchState([FetchState EXCEPT !.reported = "all processed",
                                                   !.exitStatus = "0"])
               /\ UNCHANGED <<videos, settled, gen, proxyOption>>
          ELSE /\ proxyOption' = proxy
               /\ SetFetchState(f)
               /\ IF f.exitStatus # Running
                  THEN /\ bulk' = "exited"
                       /\ UNCHANGED <<videos, settled, gen>>
                  ELSE /\ bulk' = "loop"
                       /\ videos' = tp
                       /\ settled' = [i \in 1..Len(tp) |-> Pending]
                       /\ gen' = "suspendedStart"
  /\ UNCHANGED <<mode, skipIds, concurrency, pauseAfter, pauseDuration, onProgress, pc,
                 toProcess, batches, batchIndex, results, completed, limitVars, cursor,
                 processedInBatch, pendingNext, pendingReturn, yielded, obsVars, mergeVars,
                 languages, returned, command, input, loadVars, fileVars, resume, allVideos,
                 log, successCount, failCount, taken, appending, appends, interrupted>>

\* Mutant: appendJsonl is called without await, the loop asks for the next
\* result while the line is being written.
ForAwaitNext_AppendNotAwaited ==
  /\ bulk \in {"loop", "appending"}
  /\ requested = taken
  /\ ConsumerNext

\* for await asks the generator for the next result.
ForAwaitNext ==
  /\ bulk = "loop"
  /\ requested = taken
  /\ ConsumerNext

\* The request is answered with a result: the loop body up to
\* `await appendJsonl(...)`.
ForAwaitBody ==
  /\ mode = "stream"
  /\ bulk = "loop"
  /\ requested > taken
  /\ Len(yielded) > taken
  /\ LET result == yielded[taken + 1]
         counts == Tally([successCount |-> successCount, failCount |-> failCount], result)
     IN /\ successCount' = counts.successCount
        /\ failCount' = counts.failCount
        /\ appending' = result
  /\ taken' = taken + 1
  /\ bulk' = "appending"
  /\ UNCHANGED <<args, collectVars, limitVars, streamVars, obsVars, mergeVars, selectVars,
                 returned, fetchVars, loadVars, fileVars, resume, allVideos, log, appends,
                 interrupted>>

\* appendJsonl resolves: the line is in the log, the loop goes round.
AppendJsonlResolves ==
  /\ mode = "stream"
  /\ bulk = "appending"
  /\ log' = AppendJsonl(log, appending)
  /\ appends' = appends + 1
  /\ appending' = NoResult
  /\ bulk' = "loop"
  /\ UNCHANGED <<args, collectVars, limitVars, streamVars, obsVars, mergeVars, selectVars,
                 returned, fetchVars, loadVars, fileVars, resume, allVideos, successCount,
                 failCount, taken, interrupted>>

\* The request is answered with done, or the generator threw: the loop is
\* left, the CSV is written and 'Done!' printed, or the action rejects.
ForAwaitEnds ==
  /\ mode = "stream"
  /\ bulk = "loop"
  /\ requested > taken
  /\ Len(yielded) = taken
  /\ gen \in {"completed", "threw"}
  /\ bulk' = IF gen = "threw" THEN "rejected" ELSE "done"
  /\ reported' = IF gen = "threw" THEN reported ELSE "done"
  /\ exitStatus' = IF gen = "threw" THEN "1" ELSE "0"
  /\ UNCHANGED <<args, collectVars, limitVars, streamVars, obsVars, mergeVars, selectVars,
                 returned, command, input, proxyOption, stage, trail, failure,
                 catalogRequests, segmentRequests, events, segments, infoTracks,
                 proxyExamined, loadVars, fileVars, resume, allVideos, log, successCount,
                 failCount, taken, appending, appends, interrupted>>

NextBulk ==
  \/ BulkStart
  \/ ForAwaitNext
  \/ StreamAttemptCompletes
  \/ StreamPauseElapsed
  \/ ForAwaitBody
  \/ AppendJsonlResolves
  \/ ForAwaitEnds

SpecBulk == InitBulk /\ [][NextBulk]_vars

\* ------------------------------------------- bulk command, interrupted
\* The bulk command is killed (Ctrl-C, a crash, a power cut) and started
\* again with --resume over the same sources and the same --out-jsonl.  What
\* the process held in memory is gone; the log keeps the lines written so far.
\* An appendJsonl under way when the process dies has either written its line
\* or not.
InterruptedAndResumed ==
  /\ mode = "stream"
  /\ bulk \in {"start", "loop", "appending"}
  /\ interrupted < MaxInterrupts
  /\ interrupted' = interrupted + 1
  /\ \E landed \in (IF bulk = "appending" THEN BOOLEAN ELSE {FALSE}) :
       log' = IF landed THEN AppendJsonl(log, appending) ELSE log
  /\ bulk' = "start"
  /\ resume' = TRUE
  /\ successCount' = 0
  /\ failCount' = 0
  /\ taken' = 0
  /\ appending' = NoResult
  /\ appends' = 0
  /\ videos' = <<>>
  /\ toProcess' = <<>>
  /\ settled' = <<>>
  /\ gen' = "unused"
  /\ cursor' = 0
  /\ processedInBatch' = 0
  /\ pendingNext' = 0
  /\ pendingReturn' = FALSE
  /\ yielded' = <<>>
  /\ queue' = <<>>
  /\ active' = {}
  /\ started' = <<>>
  /\ completionOrder' = <<>>
  /\ idles' = 0
  /\ requested' = 0
  /\ peakInFlight' = 0
  /\ proxyOption' = NoProxy
  /\ proxyExamined' = FALSE
  /\ reported' = "nothing"
  /\ exitStatus' = Running
  /\ UNCHANGED <<mode, skipIds, concurrency, pauseAfter, pauseDuration, onProgress, pc,
                 batches, batchIndex, results, completed, progressCalls, returnCalled,
                 mergeVars, selectVars, returned, command, input, stage, trail, failure,
                 catalogRequests, segmentRequests, events, segments, infoTracks, loadVars,
                 fileVars, allVideos>>

\* A first run on a log of its own: without --resume on an empty log, or with
\* --resume on what an earlier run left.
InitResume == InitBulk /\ (resume \/ log = <<>>)

NextResume ==
  \/ BulkStart
  \/ ForAwaitNext
  \/ StreamAttemptCompletes
  \/ StreamPauseElapsed
  \/ ForAwaitBody
  \/ AppendJsonlResolves
  \/ ForAwaitEnds
  \/ InterruptedAndResumed

SpecResume == InitResume /\ [][NextResume]_vars

\* ------------------------------------------------------- loadProcessedIds
\* The lines appendJsonl writes for a success and for a failure.
WrittenLines ==
  {JsonLine([meta |-> [videoId |-> "a"], transcript |-> "a", error |-> Absent]),
   JsonLine([meta |-> [videoId |-> "b"], transcript |-> Null, error |-> UnknownError])}

InitProcessed ==
  /\ mode = "processed"
  /\ SchedulerIdle
  /\ OutsideIdle

\* loadProcessedIds is called on a file that is missing, cannot be read, or
\* holds up to MaxItems lines.
CallLoadProcessedIds ==
  /\ mode = "processed"
  /\ loader = "none"
  /\ \E file \in FilesOf(WrittenLines \cup OtherLines) :
       /\ loader' = "loadProcessedIds"
       /\ loadFile' = file
       /\ loaded' = LoadProcessedIdsOf(file)
  /\ UNCHANGED <<args, collectVars, limitVars, streamVars, obsVars, mergeVars, selectVars,
                 returned, fetchVars, bulkVars, fileVars>>

NextProcessed == CallLoadProcessedIds

SpecProcessed == InitProcessed /\ [][NextProcessed]_vars

\* ------------------------------------- readTextFile, writeTextFile, appendTextFile
\* The contents the helpers are called with: '', 'x' and 'yz'.
Texts == {<<>>, <<"x">>, <<"y", "z">>}

\* The record caller w appends: two characters no other caller writes.
RecordOf(w) ==
  CASE w = 1 -> <<"a", "A">>
    [] w = 2 -> <<"b", "B">>
    [] w = 3 -> <<"c", "C">>
    [] OTHER -> <<"d", "D">>

\* An appendTextFile call under way: where it is (called, open, written,
\* resolved), its content, and the end of the file as it was at the open.
AppendTask(content) == [state |-> "called", content |-> content, offset |-> 0]

\* readTextFile(path): readFile(path, 'utf-8'), which rejects when there is
\* no file.
ReadTextFile(d) ==
  IF d.exists THEN [done |-> TRUE, rejected |-> FALSE, content |-> d.content]
  ELSE [done |-> TRUE, rejected |-> TRUE, content |-> <<>>]

\* Mutant: the file is opened without truncation and written at its end.
WriteTextFile_KeepsOld(d, content) == [exists |-> TRUE, content |-> d.content \o content]

\* writeTextFile(path, content): writeFile(path, content, 'utf-8'), flag 'w':
\* the file is created or truncated, then written.
WriteTextFile(d, content) == [exists |-> TRUE, content |-> content]

\* appendFile opens with flag 'a': the file is created when it is not there.
AppendOpen(d) == [d EXCEPT !.exists = TRUE]

\* Mutant: the write goes to the position that was the end of the file at
\* the open (no O_APPEND), over whatever was written there since.
AppendWrite_AtOpenOffset(d, task) ==
  LET n == Len(task.content)
  IN [d EXCEPT !.content = SubSeq(@, 1, task.offset) \o task.content
                            \o SubSeq(@, task.offset + n + 1, Len(@))]

\* The write of a file opened with flag 'a': the whole content goes to the
\* end of the file as it is at the time of the write.
AppendWrite(d, task) == [d EXCEPT !.content = @ \o task.content]

\* appendTextFile(path, content), awaited: appendFile(path, content, 'utf-8').
AppendTextFile(d, content) ==
  LET opened == AppendOpen(d)
  IN AppendWrite(opened, [AppendTask(content) EXCEPT !.offset = Len(opened.content)])

\* The helper calls that have resolved.
Call(op, content) == [op |-> op, content |-> content]

\* One caller after the other, every call awaited, on a path where no file is.
InitFiles ==
  /\ mode = "files"
  /\ SchedulerIdle
  /\ OutsideIdle

WriteTextFileCall ==
  /\ mode = "files"
  /\ Len(calls) < MaxCalls
  /\ \E content \in Texts :
       /\ disk' = WriteTextFile(disk, content)
       /\ calls' = Append(calls, Call("write", content))
  /\ UNCHANGED <<args, collectVars, limitVars, streamVars, obsVars, mergeVars, selectVars,
                 returned, fetchVars, loadVars, bulkVars, tasks, readResult>>

AppendTextFileCall ==
  /\ mode = "files"
  /\ Len(calls) < MaxCalls
  /\ \E content \in Texts :
       /\ disk' = AppendTextFile(disk, content)
       /\ calls' = Append(calls, Call("append", content))
  /\ UNCHANGED <<args, collectVars, limitVars, streamVars, obsVars, mergeVars, selectVars,
                 returned, fetchVars, loadVars, bulkVars, tasks, readResult>>

\* readTextFile is called and resolves; `after` is the number of calls that
\* had resolved by then.
ReadTextFileCall ==
  /\ mode = "files"
  /\ readResult' = [after |-> Len(calls)] @@ ReadTextFile(disk)
  /\ UNCHANGED <<args, collectVars, limitVars, streamVars, obsVars, mergeVars, selectVars,
                 returned, fetchVars, loadVars, bulkVars, disk, tasks, calls>>

NextFiles ==
  \/ WriteTextFileCall
  \/ AppendTextFileCall
  \/ ReadTextFileCall

SpecFiles == InitFiles /\ [][NextFiles]_vars

\* Several callers append one record each to one log without awaiting one
\* another (Promise.all over appendTextFile calls).  The log is not there, or
\* an earlier awaited writeTextFile has left it with some content.
InitAppend ==
  /\ mode = "append"
  /\ SchedulerIdle
  /\ sources = <<>>
  /\ merged = <<>>
  /\ tracks = <<>>
  /\ languages = <<>>
  /\ selected = 0
  /\ returned = FALSE
  /\ FetchIdle
  /\ LoadIdle
  /\ BulkIdle
  /\ readResult = NoRead
  /\ \E n \in 1..MaxWriters : tasks = [w \in 1..n |-> AppendTask(RecordOf(w))]
  /\ \/ disk = NoDisk /\ calls = <<>>
     \/ \E content \in Texts :
          /\ disk = WriteTextFile(NoDisk, content)
          /\ calls = <<Call("write", content)>>

\* The open of caller w's appendFile completes.
AppendOpens(w) ==
  /\ tasks[w].state = "called"
  /\ disk' = AppendOpen(disk)
  /\ tasks' = [tasks EXCEPT ![w].state = "open", ![w].offset = Len(disk.content)]
  /\ UNCHANGED calls

\* The write of caller w's appendFile completes.
AppendWrites(w) ==
  /\ tasks[w].state = "open"
  /\ disk' = AppendWrite(disk, tasks[w])
  /\ tasks' = [tasks EXCEPT ![w].state = "written"]
  /\ UNCHANGED calls

\* Caller w's file is closed and its appendTextFile resolves.
AppendResolves(w) ==
  /\ tasks[w].state = "written"
  /\ tasks' = [tasks EXCEPT ![w].state = "resolved"]
  /\ calls' = Append(calls, Call("append", tasks[w].content))
  /\ UNCHANGED disk

AppendStep ==
  /\ mode = "append"
  /\ \E w \in DOMAIN tasks : AppendOpens(w) \/ AppendWrites(w) \/ AppendResolves(w)
  /\ UNCHANGED <<args, collectVars, limitVars, streamVars, obsVars, mergeVars, selectVars,
                 returned, fetchVars, loadVars, bulkVars, readResult>>

\* The log is read once every append has resolved.
AppendsRead ==
  /\ mode = "append"
  /\ \A w \in DOMAIN tasks : tasks[w].state = "resolved"
  /\ ~readResult.done
  /\ readResult' = [after |-> Len(calls)] @@ ReadTextFile(disk)
  /\ UNCHANGED <<args, collectVars, limitVars, streamVars, obsVars, mergeVars, selectVars,
                 returned, fetchVars, loadVars, bulkVars, disk, tasks, calls>>

NextAppend ==
  \/ AppendStep
  \/ AppendsRead

SpecAppend == InitAppend /\ [][NextAppend]_vars

\* ================================================================ claims
\* What the claims speak about, from the arguments and the observations only.
Elems(seq) == {seq[k] : k \in 1..Len(seq)}

\* The candidate entries whose videoId is not in skipIds.
Unskipped == {i \in 1..Len(videos) : videos[i].videoId \notin skipIds}

NumUnskipped == Cardinality(Unskipped)

\* The attempts started and not yet completed.
InFlight == Elems(started) \ {completionOrder[k].pos : k \in 1..Len(completionOrder)}

Failed(k) == completionOrder[k].kind # "transcript"

\* C1. Scheduler completeness (collect mode): a run with pauseAfter >= 1 is
\* never stuck short of its end (while it awaits a batch an attempt is in
\* flight), and when processVideos resolves, its list holds exactly one result
\* for every candidate entry whose videoId is not in skipIds, each carrying
\* that entry as meta, and no result for any skipped entry.
C1_CollectCompleteness ==
  mode = "collect" =>
    /\ (pc = "running" /\ pauseAfter >= 1) => InFlight # {}
    /\ pc = "resolved" =>
         /\ \A i \in Unskipped :
              Cardinality({k \in 1..Len(results) : results[k].pos = i}) = 1
         /\ \A k \in 1..Len(results) :
              /\ results[k].pos \in Unskipped
              /\ results[k].meta = videos[results[k].pos]

\* A resolved run of two batches with a skipped entry, a failure and a success.
C1_Witness ==
  /\ mode = "collect"
  /\ pc = "resolved"
  /\ Len(batches) >= 2
  /\ Unskipped # 1..Len(videos)
  /\ \E j, k \in 1..Len(results) : results[j].error # Absent /\ results[k].error = Absent

\* C2. Failure isolation: a failing fetchTranscript never makes processVideos
\* reject (it rejects only when an onProgress callback throws) and never makes
\* the streamVideos generator throw; the failed attempt is turned into a
\* result with a null transcript and an error message for its candidate; and
\* a run that reaches its end has attempted every unskipped candidate.
C2_FailureIsolation ==
  /\ (pc = "rejected") => (onProgress = "throws")
  /\ gen # "threw"
  /\ \A k \in 1..Len(completionOrder) :
       LET pos == completionOrder[k].pos
       IN Failed(k) =>
            /\ mode = "collect" /\ onProgress # "throws" =>
                 /\ settled[pos].state = "fulfilled"
                 /\ settled[pos].value.pos = pos
                 /\ settled[pos].value.transcript = Null
                 /\ settled[pos].value.error # Absent
            /\ mode = "stream" =>
                 /\ yielded[k].pos = pos
                 /\ yielded[k].transcript = Null
                 /\ yielded[k].error # Absent
  /\ pc = "resolved" => Elems(started) = Unskipped
  /\ (gen = "completed" /\ ~returnCalled) => Elems(started) = Unskipped

\* A resolved collect run whose first attempt to end failed with a thrown
\* value that is no Error, and which went on to other candidates.
C2_Witness ==
  /\ mode = "collect"
  /\ pc = "resolved"
  /\ Len(completionOrder) >= 3
  /\ completionOrder[1].kind = "nonError"
  /\ completionOrder[2].kind = "Error"

\* C3. Resume skip: in both modes fetchTranscript is never called for a
\* candidate whose videoId is in skipIds.
C3_ResumeSkip ==
  \A k \in 1..Len(started) : videos[started[k]].videoId \notin skipIds

\* A finished run over a list with a skipped entry between attempted ones.
C3_Witness ==
  /\ \E i, j, k \in 1..Len(videos) :
       /\ i < j /\ j < k
       /\ videos[j].videoId \in skipIds
       /\ i \in Elems(started) /\ k \in Elems(started)
  /\ pc = "resolved" \/ gen = "completed"

\* C4. Concurrency cap (collect mode): in every state of a processVideos run
\* the attempts started and not yet completed number at most `concurrency`.
C4_CollectConcurrencyCap ==
  mode = "collect" => Cardinality(InFlight) <= concurrency

\* The cap binds: two attempts in flight under concurrency 2 while a third
\* entry of the same batch waits in the limiter's queue.
C4_Witness ==
  /\ mode = "collect"
  /\ concurrency = 2
  /\ Cardinality(InFlight) = 2
  /\ queue # <<>>

CeilDiv(a, b) == (a + b - 1) \div b

\* C5. Pacing (collect mode), for pauseAfter >= 1: with pauseDuration > 0 one
\* idle follows every batch but the last (while batch b runs, b - 1 idles have
\* begun; an idle is only ever begun after a batch that is not the last), so a
\* resolved run over n >= 1 unskipped candidates has made exactly
\* ceil(n / pauseAfter) - 1 idles; with pauseDuration = 0, and with nothing to
\* process, no idle occurs.
C5_CollectPacing ==
  (mode = "collect" /\ pauseAfter >= 1) =>
    /\ pauseDuration = 0 => idles = 0 /\ pc # "pausing"
    /\ pauseDuration > 0 =>
         /\ pc = "running" => idles = batchIndex - 1
         /\ pc = "pausing" => idles = batchIndex /\ batchIndex < Len(batches)
         /\ pc = "resolved" =>
              idles = IF NumUnskipped = 0 THEN 0
                      ELSE CeilDiv(NumUnskipped, pauseAfter) - 1

\* Five unskipped candidates in batches of two: the resolved run idled twice.
C5_Witness ==
  /\ mode = "collect"
  /\ pc = "resolved"
  /\ pauseDuration > 0
  /\ pauseAfter = 2
  /\ NumUnskipped = 5
  /\ idles = 2

\* The n-th unskipped candidate (n from 1) belongs to batch (n - 1) \div pauseAfter.
Rank(i) == Cardinality({j \in Unskipped : j <= i})

BatchOf(i) == (Rank(i) - 1) \div pauseAfter

RECURSIVE Flatten(_)
Flatten(ss) == IF ss = <<>> THEN <<>> ELSE Head(ss) \o Flatten(Tail(ss))

\* C6. Batch barrier (collect mode), for pauseAfter >= 1: the batches are
\* consecutive runs of the unskipped candidates, pauseAfter long except
\* possibly the last, and an attempt of a later batch has only started when
\* every attempt of every earlier batch has completed, whatever pauseDuration.
C6_BatchBarrier ==
  (mode = "collect" /\ pauseAfter >= 1 /\ pc # "init") =>
    /\ Flatten(batches) = toProcess
    /\ Elems(toProcess) = Unskipped
    /\ \A b \in 1..Len(batches) :
         /\ Len(batches[b]) >= 1
         /\ b < Len(batches) => Len(batches[b]) = pauseAfter
         /\ Len(batches[b]) <= pauseAfter
    /\ LET batchOf == [i \in Unskipped |-> BatchOf(i)]
           begun == Elems(started)
           inFlight == InFlight
       IN \A i \in begun, j \in Unskipped :
            batchOf[j] < batchOf[i] => j \notin inFlight /\ j \in begun

\* Without a pause, the second batch is running and the first is complete.
C6_Witness ==
  /\ mode = "collect"
  /\ pauseDuration = 0
  /\ pauseAfter = 2
  /\ concurrency = 2
  /\ pc = "running"
  /\ batchIndex = 2
  /\ Len(completionOrder) = 2
  /\ InFlight # {}

\* The run of the stream has ended because the list was exhausted.
Drained == mode = "stream" /\ gen = "completed" /\ ~returnCalled

\* C7. Stream mode dispatches attempts concurrently up to the cap: a drained
\* streamVideos run with concurrency >= 2 over at least two unskipped
\* candidates has had two attempts in flight at the same time, and never more
\* than `concurrency`.
C7_StreamDispatchesConcurrently ==
  /\ mode = "stream" => Cardinality(InFlight) <= concurrency
  /\ (Drained /\ concurrency >= 2 /\ NumUnskipped >= 2) => peakInFlight >= 2

\* C8. Stream mode yields in completion order: every result is handed to the
\* consumer as its attempt completes, so at every moment the results yielded
\* are, in order, the attempts completed.
C8_YieldInCompletionOrder ==
  mode = "stream" =>
    /\ Len(yielded) = Len(completionOrder)
    /\ \A k \in 1..Len(yielded) : yielded[k].pos = completionOrder[k].pos

\* Three results yielded, the second of them a failure.
C8_Witness ==
  /\ mode = "stream"
  /\ Len(yielded) = 3
  /\ Failed(2)
  /\ concurrency = 2

\* C9. Pacing (stream mode), for pauseAfter >= 1: once the result of the last
\* unskipped candidate has been yielded the generator does not idle again, so
\* a stream never idles more often than it has batches to separate.
C9_NoIdleAfterLastResult ==
  (mode = "stream" /\ pauseAfter >= 1 /\ NumUnskipped >= 1) =>
    /\ Len(yielded) = NumUnskipped => gen # "pausing"
    /\ idles <= CeilDiv(NumUnskipped, pauseAfter) - 1

\* C10. Stream mode is lazy: fetchTranscript has been called at most as often
\* as the consumer has called next(), and not at all before the first call;
\* and when the generator has ended, no attempt was made whose result was not
\* handed to the consumer.
C10_StreamLazy ==
  mode = "stream" =>
    /\ Len(started) <= requested
    /\ gen = "suspendedStart" => started = <<>>
    /\ gen = "completed" => Len(started) = Len(yielded)

\* The consumer took one item of three and left: one attempt was made.
C10_Witness ==
  /\ mode = "stream"
  /\ returnCalled
  /\ gen = "completed"
  /\ NumUnskipped = 3
  /\ Len(yielded) = 1
  /\ Len(started) = 1

\* The results yielded are exactly one per unskipped candidate, each carrying
\* its candidate as meta.
YieldedOnePerUnskipped ==
  /\ Len(yielded) = NumUnskipped
  /\ \A i \in Unskipped : \E k \in 1..Len(yielded) : yielded[k].pos = i
  /\ \A k \in 1..Len(yielded) : yielded[k].meta = videos[yielded[k].pos]

\* C11. Stream mode is finite and complete: under a consumer that keeps
\* requesting items, with every fetch attempt terminating, the generator of
\* streamVideos eventually ends and stays ended, having yielded exactly one
\* result per candidate entry whose videoId is not in skipIds, for every
\* pauseAfter >= 0 and pauseDuration >= 0.
C11_StreamFiniteComplete ==
  <>[](gen = "completed" /\ YieldedOnePerUnskipped)

\* A drained stream with pauseAfter = 0 and a positive pause: two results
\* yielded, one entry skipped, a pause after each result.
C11_Witness ==
  /\ Drained
  /\ pauseAfter = 0
  /\ pauseDuration > 0
  /\ Len(videos) = 3
  /\ Len(yielded) = 2
  /\ NumUnskipped = 2
  /\ idles = 2

\* C12. Progress callback (collect mode): a supplied onProgress has been
\* called once for every attempt completed so far, the k-th call for the k-th
\* attempt to complete, with completedCount = k, totalCount = the number of
\* unskipped candidates and the result of that attempt; a resolved run has
\* made totalCount calls.
C12_ProgressPerCompletion ==
  (mode = "collect" /\ onProgress # "none") =>
    /\ Len(progressCalls) = Len(completionOrder)
    /\ \A k \in 1..Len(progressCalls) :
         LET call == progressCalls[k]
             pos == completionOrder[k].pos
         IN /\ call.completed = k
            /\ call.total = NumUnskipped
            /\ call.result.pos = pos
            /\ call.result.meta = videos[pos]
            /\ (call.result.transcript = Null) = Failed(k)
            /\ onProgress = "returns" => settled[pos] = Fulfilled(call.result)
    /\ pc = "resolved" => Len(progressCalls) = NumUnskipped

\* A resolved run with a skipped entry whose two attempts, in flight
\* together, completed in the reverse of input order.
C12_Witness ==
  /\ mode = "collect"
  /\ onProgress = "returns"
  /\ pc = "resolved"
  /\ Len(videos) = 3
  /\ Len(progressCalls) = 2
  /\ progressCalls[1].result.pos > progressCalls[2].result.pos
  /\ progressCalls[2].completed = 2

\* C13. Progress callback (stream mode): an onProgress callback supplied to
\* streamVideos has been called once for every attempt completed so far, the
\* k-th call with completedCount = k, totalCount = the number of unskipped
\* candidates and the result of the k-th attempt to complete.
C13_StreamProgressPerCompletion ==
  (mode = "stream" /\ onProgress # "none") =>
    /\ Len(progressCalls) = Len(completionOrder)
    /\ \A k \in 1..Len(progressCalls) :
         /\ progressCalls[k].completed = k
         /\ progressCalls[k].total = NumUnskipped
         /\ progressCalls[k].result = yielded[k]

\* C14. The progress callback is purely observational: processVideos never
\* rejects, whatever its onProgress callback does, and a run whose attempts
\* have all completed has resolved with one result per unskipped candidate.
C14_ProgressObservational ==
  mode = "collect" =>
    /\ pc # "rejected"
    /\ (pauseAfter >= 1 /\ pc # "init" /\ pc # "pausing"
           /\ Len(completionOrder) = NumUnskipped) =>
         /\ pc = "resolved"
         /\ Len(results) = NumUnskipped

\* C15. Empty work list: when no candidate is left after the skipIds filter
\* (the list is empty or every entry is skipped), processVideos resolves with
\* an empty list at once and the streamVideos generator ends at the first
\* request without yielding; neither rejects or throws, calls
\* fetchTranscript, idles or calls onProgress.
C15_EmptyWorkList ==
  NumUnskipped = 0 =>
    /\ started = <<>>
    /\ idles = 0
    /\ progressCalls = <<>>
    /\ results = <<>>
    /\ yielded = <<>>
    /\ mode = "collect" => pc \in {"init", "resolved"}
    /\ mode = "stream" => gen \in {"suspendedStart", "completed"}
    /\ (mode = "stream" /\ requested >= 1) => gen = "completed"

\* processVideos has resolved over three entries that are all skipped, called
\* with pauseAfter = 0, a positive pause and a callback that would throw.
C15_Witness ==
  /\ mode = "collect"
  /\ pc = "resolved"
  /\ Len(videos) = 3
  /\ NumUnskipped = 0
  /\ pauseAfter = 0
  /\ pauseDuration > 0
  /\ onProgress = "throws"

\* Every TranscriptResult handed out so far: to the caller, to the consumer,
\* to Promise.all or to onProgress.
Produced ==
  Elems(results) \cup Elems(yielded)
    \cup {settled[i].value : i \in {j \in 1..Len(videos) : settled[j].state = "fulfilled"}}
    \cup {progressCalls[k].result : k \in 1..Len(progressCalls)}

\* C16. Result shape: every TranscriptResult produced by processVideos or
\* streamVideos belongs to one completed attempt and carries that attempt's
\* candidate as meta; it has a transcript and no error field when the attempt
\* succeeded, and a null transcript with an error message when it failed, the
\* message of the thrown Error or 'Unknown error' when the thrown value was
\* no Error.
C16_ResultShape ==
  \A r \in Produced :
    /\ r.pos \in Elems(started)
    /\ r.meta = videos[r.pos]
    /\ \/ r.transcript # Null /\ r.error = Absent
       \/ r.transcript = Null /\ r.error # Absent
    /\ \E k \in 1..Len(completionOrder) :
         /\ completionOrder[k].pos = r.pos
         /\ CASE completionOrder[k].kind = "transcript" ->
                   r.transcript = videos[r.pos].videoId /\ r.error = Absent
              [] completionOrder[k].kind = "Error" ->
                   r.transcript = Null /\ r.error \in ErrorMessages
              [] completionOrder[k].kind = "nonError" ->
                   r.transcript = Null /\ r.error = UnknownError

\* A stream has yielded a transcript, the result of a thrown Error and the
\* result of a thrown value that is no Error.
C16_Witness ==
  /\ mode = "stream"
  /\ Len(yielded) = 3
  /\ {completionOrder[k].kind : k \in 1..3} = {"transcript", "Error", "nonError"}
  /\ yielded[1].error = UnknownError

\* C17. Dispatch order (collect mode, pauseAfter >= 1): within a batch the
\* attempts start in input order: when the attempt for a candidate has
\* started, the attempt for every earlier candidate of the same batch has
\* started before it, whatever the order in which attempts complete.
C17_DispatchOrder ==
  (mode = "collect" /\ pauseAfter >= 1) =>
    LET batchOf == [i \in Unskipped |-> BatchOf(i)]
    IN \A k \in 1..Len(started) :
         \A i \in Unskipped :
           (i < started[k] /\ batchOf[i] = batchOf[started[k]]) =>
             \E h \in 1..(k - 1) : started[h] = i

\* A batch of three under concurrency 2: the second attempt completed first,
\* and the third then started after the first two.
C17_Witness ==
  /\ mode = "collect"
  /\ concurrency = 2
  /\ pauseAfter = 3
  /\ started = <<1, 2, 3>>
  /\ Len(completionOrder) >= 1
  /\ completionOrder[1].pos = 2

\* The places of the entries of the sources, and their order: source order,
\* then position order within a source.
Places == {p \in (1..Len(sources)) \X (1..MaxVideos) : p[2] <= Len(sources[p[1]])}

Before(p, q) == p[1] < q[1] \/ (p[1] = q[1] /\ p[2] < q[2])

PlaceOf(entry) == <<entry.s, entry.i>>

\* C18. Merge is first-writer-wins: the list mergeVideoSources returns holds
\* exactly one entry for every videoId occurring in any source, that entry is
\* the first occurrence of its videoId in source order and position order,
\* and the entries stand in the order of their first appearance.
C18_MergeFirstWriterWins ==
  (mode = "merge" /\ returned) =>
    /\ \A p \in Places :
         Cardinality({k \in 1..Len(merged) :
                        merged[k].meta.videoId = sources[p[1]][p[2]].videoId}) = 1
    /\ \A k \in 1..Len(merged) :
         /\ PlaceOf(merged[k]) \in Places
         /\ merged[k].meta = sources[merged[k].s][merged[k].i]
         /\ \A p \in Places :
              sources[p[1]][p[2]].videoId = merged[k].meta.videoId =>
                ~Before(p, PlaceOf(merged[k]))
    /\ \A j, k \in 1..Len(merged) :
         j < k => Before(PlaceOf(merged[j]), PlaceOf(merged[k]))

\* Three sources, one of them empty: "b" then "a" first appear in the first
\* source, and a later "b" of another provenance was discarded.
C18_Witness ==
  /\ mode = "merge"
  /\ returned
  /\ Len(sources) = 3
  /\ sources[2] = <<>>
  /\ Len(sources[1]) = 2
  /\ Len(sources[3]) = 1
  /\ sources[3][1].videoId = "b"
  /\ sources[3][1].source # sources[1][1].source
  /\ Len(merged) = 2
  /\ merged[1].meta.videoId = "b"
  /\ merged[2].meta.videoId = "a"

\* history > watch_later > manual
ProvenanceRank(source) ==
  CASE source = "history" -> 3
    [] source = "watch_later" -> 2
    [] source = "manual" -> 1

\* C19. Merge priority by provenance: the entry that survives for a videoId
\* is of the highest-ranked provenance (history > watch_later > manual) among
\* the entries of that videoId in the sources, whatever the order in which
\* the sources were passed.
C19_MergePriorityByProvenance ==
  (mode = "merge" /\ returned) =>
    \A k \in 1..Len(merged) :
      \A p \in Places :
        sources[p[1]][p[2]].videoId = merged[k].meta.videoId =>
          ProvenanceRank(sources[p[1]][p[2]].source) <= ProvenanceRank(merged[k].meta.source)

\* Some track's languageCode starts with the language tag.
AnyMatch(tag) == \E k \in 1..Len(tracks) : StartsWith(tracks[k].languageCode, tag)

\* C20. Track selection, cross-language rule: the track selected is a track
\* of the first preferred language that prefix-matches any track, so a manual
\* track of a later-preferred language never overrides an auto-generated
\* track of an earlier-preferred one.
C20_CrossLanguageRule ==
  (mode = "select" /\ returned) =>
    \A l \in 1..Len(languages) :
      (AnyMatch(languages[l]) /\ \A h \in 1..(l - 1) : ~AnyMatch(languages[h])) =>
        /\ selected \in 1..Len(tracks)
        /\ StartsWith(tracks[selected].languageCode, languages[l])

\* Preferences [es, en] over the tracks [es AUTO, en MANUAL]: es AUTO is
\* selected.
C20_Witness ==
  /\ mode = "select"
  /\ returned
  /\ languages = <<<<"e", "s">>, <<"e", "n">>>>
  /\ tracks = <<[languageCode |-> <<"e", "s">>, kind |-> Asr],
                [languageCode |-> <<"e", "n">>, kind |-> Absent]>>
  /\ selected = 1

\* The indices of the tracks whose languageCode starts with the tag.
MatchingTracks(tag) == {k \in 1..Len(tracks) : StartsWith(tracks[k].languageCode, tag)}

\* C21. Track selection, manual-over-auto tie-break: among the tracks that
\* match the winning preferred language (the first that matches any track)
\* the selector returns the first manual track in catalog order when there is
\* one, and the first matching track otherwise.
C21_ManualOverAuto ==
  (mode = "select" /\ returned) =>
    \A l \in 1..Len(languages) :
      (AnyMatch(languages[l]) /\ \A h \in 1..(l - 1) : ~AnyMatch(languages[h])) =>
        LET matching == MatchingTracks(languages[l])
            manual == {k \in matching : tracks[k].kind # Asr}
        IN /\ selected \in matching
           /\ manual # {} => selected \in manual /\ \A k \in manual : selected <= k
           /\ manual = {} => \A k \in matching : selected <= k

\* Preference [en] over the catalog [en AUTO, en MANUAL]: the manual track,
\* second in the catalog, is selected.
C21_Witness ==
  /\ mode = "select"
  /\ returned
  /\ languages = <<<<"e", "n">>>>
  /\ tracks = <<[languageCode |-> <<"e", "n">>, kind |-> Asr],
                [languageCode |-> <<"e", "n">>, kind |-> Absent]>>
  /\ selected = 2

\* The pipeline has been in the state.
Visited(st) == \E k \in 1..Len(trail) : trail[k] = st

StageRank(st) ==
  CASE st = "RESOLVE" -> 1
    [] st = "CATALOG" -> 2
    [] st = "SELECT" -> 3
    [] st = "SEGMENTS" -> 4
    [] st = "DONE" -> 5
    [] st = "FAILED" -> 6

\* C23. Single-attempt pipeline: a fetchTranscript call starts in RESOLVE and
\* each of its steps goes to the next state of RESOLVE, CATALOG, SELECT,
\* SEGMENTS, DONE or to the failure exit, never back and never to the same
\* state again; it sends at most one catalog request and at most one segment
\* request, the segment request only after the catalog request was answered
\* with a catalog, and nothing is sent after a failure.
C23_SingleAttemptPipeline ==
  (mode = "fetch" /\ command \in {"get", "fetchTranscript"} /\ trail # <<>>) =>
    /\ trail[1] = "RESOLVE"
    /\ trail[Len(trail)] = stage
    /\ \A k \in 1..(Len(trail) - 1) :
         \/ trail[k + 1] = "FAILED" /\ trail[k] \notin {"DONE", "FAILED"}
         \/ StageRank(trail[k + 1]) = StageRank(trail[k]) + 1 /\ trail[k + 1] # "FAILED"
    /\ catalogRequests <= 1
    /\ segmentRequests <= 1
    /\ catalogRequests = (IF Visited("CATALOG") THEN 1 ELSE 0)
    /\ segmentRequests = (IF Visited("SEGMENTS") THEN 1 ELSE 0)
    /\ segmentRequests = 1 => catalogRequests = 1 /\ tracks # <<>> /\ Visited("SELECT")

\* A fetch that went through every state and failed on the segment request.
C23_Witness ==
  /\ mode = "fetch"
  /\ command = "fetchTranscript"
  /\ trail = <<"RESOLVE", "CATALOG", "SELECT", "SEGMENTS", "FAILED">>
  /\ failure \in TransportFailures
  /\ catalogRequests = 1
  /\ segmentRequests = 1

\* The player endpoint answered, and its answer held no track.
CatalogWasEmpty ==
  /\ catalogRequests = 1
  /\ stage \in {"DONE", "FAILED"}
  /\ tracks = <<>>
  /\ failure \notin TransportFailures

\* C24. Zero tracks has two contracts: when the catalog fetch succeeds with
\* zero tracks, fetchVideoInfo resolves with the empty list and the info
\* command reports it and ends without failure, while fetchTranscript fails
\* with 'No captions available' and sends no segment request.
C24_ZeroTracks ==
  (mode = "fetch" /\ CatalogWasEmpty) =>
    /\ segmentRequests = 0
    /\ command = "info" =>
         /\ stage = "DONE"
         /\ failure = Absent
         /\ infoTracks = <<>>
         /\ reported = "no captions"
         /\ exitStatus = "0"
    /\ command # "info" =>
         /\ stage = "FAILED"
         /\ failure = NoCaptionsAvailable
    /\ command = "get" => exitStatus = "1"

\* The info command has reported a video without captions.
C24_Witness ==
  /\ mode = "fetch"
  /\ command = "info"
  /\ CatalogWasEmpty
  /\ reported = "no captions"
  /\ exitStatus = "0"

\* The track's baseUrl answered with a payload of events.
EventsArrived ==
  /\ segmentRequests = 1
  /\ stage \in {"DONE", "FAILED"}
  /\ failure \notin TransportFailures

\* The events that carry at least one fragment.
Carrying == {k \in 1..Len(events) : Len(events[k].segs) >= 1}

\* C25. Segment normalization: the segments are exactly one per event that
\* carries at least one fragment, in the events' order, each with that
\* event's fragments as text and its times in seconds; events without
\* fragments leave no segment; and when no event carries a fragment the
\* fetch fails with 'Caption track is empty' and returns no transcript.
C25_Normalization ==
  (mode = "fetch" /\ EventsArrived) =>
    /\ Carrying = {} <=> (stage = "FAILED" /\ failure = CaptionTrackEmpty)
    /\ Carrying = {} => segments = <<>>
    /\ Carrying # {} =>
         /\ stage = "DONE"
         /\ Len(segments) = Cardinality(Carrying)
         /\ \A j \in 1..Len(segments) :
              \E k \in Carrying :
                /\ Cardinality({h \in Carrying : h <= k}) = j
                /\ segments[j].text = events[k].segs
                /\ segments[j].start * 1000 = events[k].tStartMs
                /\ segments[j].duration * 1000 = events[k].dDurationMs

\* A payload whose first event has no fragments and whose second has two:
\* one segment, starting at 5 s.
C25_Witness ==
  /\ mode = "fetch"
  /\ stage = "DONE"
  /\ Len(events) = 2
  /\ events[1].segs = <<>>
  /\ Len(events[2].segs) = 2
  /\ Len(segments) = 1
  /\ segments[1].start = 5

\* C26. Invalid identifier fails fast: when the argument of the get or info
\* command does not resolve to a video identifier, the command reports the
\* invalid argument and exits with status 1; no request has been sent, no
\* fetch was started and parseProxy was not called.
C26_InvalidIdFailsFast ==
  (mode = "fetch" /\ command \in {"get", "info"} /\ ExtractVideoId(input) = NoId) =>
    /\ reported = "invalid video"
    /\ exitStatus = "1"
    /\ catalogRequests = 0
    /\ segmentRequests = 0
    /\ trail = <<>>
    /\ ~proxyExamined

\* The info command was given a URL of another host together with a proxy
\* option that is no URL: it reported the video argument.
C26_Witness ==
  /\ mode = "fetch"
  /\ command = "info"
  /\ input.shape = "other"
  /\ proxyOption.given
  /\ ~proxyOption.parses
  /\ reported = "invalid video"
  /\ exitStatus = "1"

\* C27. Identifier validation at the boundary: every videoId of an entry
\* that loadWatchHistory, loadWatchLater or fromVideoIds returned is a
\* validated identifier, 11 characters of [A-Za-z0-9_-] (and so not empty).
C27_ValidatedAtBoundary ==
  (mode = "load" /\ loader # "none" /\ ~loaded.rejected) =>
    \A k \in 1..Len(loaded.entries) : IsVideoId(loaded.entries[k].videoId)

\* The videoIds the bulk command skipped: with --resume those of the lines
\* the log held before the run.
BulkSkipped ==
  IF resume THEN {log[k].meta.videoId : k \in 1..(Len(log) - appends)} ELSE {}

\* C28. Persisted record and tally per attempt: in the bulk command every
\* result the loop received from the stream is counted in exactly one of
\* successCount and failCount (a result with a transcript in the first, any
\* other in the second) and, once its appendJsonl has resolved, is a line at
\* the end of the log, in the order received, failures included; between
\* loop iterations successCount + failCount is the number of lines appended,
\* and when the command is done it is the number of unique videos that were
\* not skipped.
C28_PersistedAndTallied ==
  (mode = "stream" /\ bulk # "none") =>
    /\ successCount = Cardinality({k \in 1..taken : yielded[k].transcript # Null})
    /\ failCount = Cardinality({k \in 1..taken : yielded[k].transcript = Null})
    /\ successCount + failCount = taken
    /\ appends = IF bulk = "appending" THEN taken - 1 ELSE taken
    /\ Len(log) >= appends
    /\ \A k \in 1..appends : log[Len(log) - appends + k] = JsonLine(yielded[k])
    /\ bulk # "appending" => successCount + failCount = appends
    /\ bulk = "done" =>
         successCount + failCount =
           Cardinality({i \in 1..Len(allVideos) : allVideos[i].videoId \notin BulkSkipped})

\* A run without --resume over two videos and a log of one line is done: one
\* success, one failure, three lines.
C28_Witness ==
  /\ mode = "stream"
  /\ bulk = "done"
  /\ ~resume
  /\ Len(allVideos) = 2
  /\ successCount = 1
  /\ failCount = 1
  /\ appends = 2
  /\ Len(log) = 3
  /\ log[2].transcript = Null
  /\ log[3].transcript # Null

\* What the log held before the concurrent appends were called.
Prior == IF calls # <<>> /\ calls[1].op = "write" THEN calls[1].content ELSE <<>>

\* The callers whose write has completed.
Landed == {w \in DOMAIN tasks : tasks[w].state \in {"written", "resolved"}}

\* The orders in which the callers of a set can come.
RECURSIVE Orders(_)
Orders(S) ==
  IF S = {} THEN {<<>>}
  ELSE UNION {{<<w>> \o order : order \in Orders(S \ {w})} : w \in S}

\* The records of the callers, one after the other in the given order.
RECURSIVE RecordsIn(_)
RecordsIn(order) ==
  IF order = <<>> THEN <<>> ELSE tasks[Head(order)].content \o RecordsIn(Tail(order))

\* C29. Atomic append: while several appendTextFile calls of one record each
\* run concurrently on one log, the log is what it held before followed by
\* the whole records of the callers whose write has completed, each exactly
\* once, in some order; once all have resolved, reading the log gives every
\* caller's record exactly once and whole.
C29_AtomicAppend ==
  mode = "append" =>
    /\ \E order \in Orders(Landed) : disk.content = Prior \o RecordsIn(order)
    /\ readResult.done =>
         /\ ~readResult.rejected
         /\ \E order \in Orders(DOMAIN tasks) :
              readResult.content = Prior \o RecordsIn(order)

\* Three callers had all opened the log, which held 'x', before any of them
\* wrote; the log read at the end holds the records of callers 3, 1 and 2.
C29_Witness ==
  /\ mode = "append"
  /\ readResult.done
  /\ Len(tasks) = 3
  /\ \A w \in DOMAIN tasks : tasks[w].offset = 1
  /\ readResult.content = <<"x">> \o RecordOf(3) \o RecordOf(1) \o RecordOf(2)

\* The index of the last writeTextFile call among the calls, 0 when none.
LastWrite(cs) ==
  LET at == {k \in 1..Len(cs) : cs[k].op = "write"}
  IN IF at = {} THEN 0 ELSE CHOOSE k \in at : \A h \in at : h <= k

\* The contents of the appendTextFile calls from index k on, in call order.
RECURSIVE AppendedFrom(_, _)
AppendedFrom(cs, k) ==
  IF k > Len(cs) THEN <<>>
  ELSE (IF cs[k].op = "append" THEN cs[k].content ELSE <<>>) \o AppendedFrom(cs, k + 1)

\* The content of the last writeTextFile (empty if none) followed by the
\* contents of the later appendTextFile calls.
Expected(cs) ==
  LET w == LastWrite(cs)
  IN (IF w = 0 THEN <<>> ELSE cs[w].content) \o AppendedFrom(cs, w + 1)

\* C30. File helpers as a state machine: after a sequence of one or more
\* awaited writeTextFile and appendTextFile calls on one path the file
\* exists, and readTextFile resolves with the content of the last
\* writeTextFile (the empty content if there was none, the first append
\* having created the file) followed by the contents of the later
\* appendTextFile calls in call order; nothing written before the last
\* writeTextFile is left.
C30_FileHelpers ==
  mode = "files" =>
    /\ calls # <<>> => disk.exists /\ disk.content = Expected(calls)
    /\ (readResult.done /\ readResult.after >= 1) =>
         /\ ~readResult.rejected
         /\ readResult.content = Expected(SubSeq(calls, 1, readResult.after))

\* append 'x', write 'yz', append 'x', then a read: 'yzx'.
C30_Witness ==
  /\ mode = "files"
  /\ calls = <<Call("append", <<"x">>), Call("write", <<"y", "z">>), Call("append", <<"x">>)>>
  /\ readResult.done
  /\ readResult.after = 3
  /\ readResult.content = <<"y", "z", "x">>

\* The items of the file a loader was called on that the given predicate
\* holds of, and the place of item k among them.
ItemsWhere(Keep(_)) == {k \in 1..Len(loadFile.items) : Keep(loadFile.items[k])}
PlaceAmong(at, k) == Cardinality({h \in at : h <= k})

Resolves(inp) == ExtractVideoId(inp) # NoId

\* C31. fromVideoIds keeps exactly the resolvable inputs: it returns, without
\* throwing, one entry per input that extractVideoId resolves, in input
\* order, with that identifier as videoId and source 'manual'; inputs that
\* do not resolve ('' among them) leave no entry; the url of an entry is the
\* input itself when the input starts with 'http' and the watch URL of the
\* identifier otherwise.
C31_FromVideoIds ==
  (mode = "load" /\ loader = "fromVideoIds") =>
    LET inputs == loadFile.items
        kept == ItemsWhere(Resolves)
    IN /\ ~loaded.rejected
       /\ Len(loaded.entries) = Cardinality(kept)
       /\ \A k \in kept :
            LET entry == loaded.entries[PlaceAmong(kept, k)]
            IN /\ entry.videoId = ExtractVideoId(inputs[k])
               /\ entry.source = "manual"
               /\ entry.url = IF inputs[k].shape # "bare" \/ SubSeq(inputs[k].text, 1, 4) = Http
                               THEN inputs[k]
                               ELSE [shape |-> "watch", text |-> entry.videoId]

\* fromVideoIds(['', 'https://youtu.be/dQw4w9WgXcQ']) has returned one entry
\* whose url is the short link.
C31_Witness ==
  /\ mode = "load"
  /\ loader = "fromVideoIds"
  /\ Len(loadFile.items) = 2
  /\ loadFile.items[1].text = <<>>
  /\ loadFile.items[2].shape = "short"
  /\ Len(loaded.entries) = 1
  /\ loaded.entries[1].url = loadFile.items[2]
  /\ loaded.entries[1].videoId = SampleVideoId

\* The line is a JSON record that names the videoId: in meta.videoId, or,
\* when that is missing or empty, in videoId.
Names(line, id) ==
  /\ id # ""
  /\ "text" \notin DOMAIN line
  /\ "literal" \notin DOMAIN line
  /\ LET metaId == IF "meta" \in DOMAIN line /\ "videoId" \in DOMAIN line.meta
                    THEN line.meta.videoId ELSE ""
         topId == IF "videoId" \in DOMAIN line THEN line.videoId ELSE ""
     IN id = IF metaId # "" THEN metaId ELSE topId

\* C32. loadProcessedIds is total and tolerant: it never rejects; for a file
\* that is missing or cannot be read it returns the empty set; otherwise it
\* returns exactly the videoIds named by the well-formed lines
\* (record.meta.videoId, else record.videoId), whether the record is a
\* success or a failure, and a line that is no JSON record adds nothing and
\* takes nothing away from the lines around it.
C32_LoadProcessedIds ==
  (mode = "processed" /\ loader = "loadProcessedIds") =>
    /\ ~loaded.rejected
    /\ (~loadFile.exists \/ ~loadFile.wellFormed) => loaded.ids = {}
    /\ \A id \in VideoIds \cup loaded.ids :
         id \in loaded.ids <=>
           \E k \in 1..Len(loadFile.items) : Names(loadFile.items[k], id)

\* A success record of a, text that is no JSON, and a record of b in the
\* other format: both a and b are returned.
C32_Witness ==
  /\ mode = "processed"
  /\ loader = "loadProcessedIds"
  /\ Len(loadFile.items) = 3
  /\ loadFile.items[1] = JsonLine([meta |-> [videoId |-> "a"], transcript |-> "a", error |-> Absent])
  /\ loadFile.items[2] = [text |-> "not json"]
  /\ loadFile.items[3] = [videoId |-> "b"]
  /\ loaded.ids = {"a", "b"}

\* text.endsWith(part)
EndsWith(text, part) ==
  Len(part) <= Len(text) /\ SubSeq(text, Len(text) - Len(part) + 1, Len(text)) = part

\* The hostname is the platform's: youtube.com, one of its subdomains, or the
\* short-link host.
IsPlatformHost(hostname) ==
  \/ hostname = YoutubeCom
  \/ EndsWith(hostname, <<".">> \o YoutubeCom)
  \/ hostname = YoutuBe

\* The item has a titleUrl that is a video URL of the platform: a URL of a
\* platform host that carries something where the video id is expected.
IsVideoItem(item) ==
  LET url == item.titleUrl
  IN /\ url.given
     /\ url.parses
     /\ IsPlatformHost(url.hostname)
     /\ ExtractVideoIdFromUrl(url) # NoId

\* C33. loadWatchHistory filters and preserves order: for a file that is
\* there and is JSON it returns one entry with source 'history' per item
\* whose titleUrl is a video URL of the platform, in file order, with the id
\* that URL carries, and no entry for an item without titleUrl or with
\* another URL; for a missing file and for invalid JSON it rejects.
C33_HistoryFiltersInOrder ==
  (mode = "load" /\ loader = "loadWatchHistory") =>
    /\ loaded.rejected <=> (~loadFile.exists \/ ~loadFile.wellFormed)
    /\ ~loaded.rejected =>
         LET kept == ItemsWhere(IsVideoItem)
         IN /\ Len(loaded.entries) = Cardinality(kept)
            /\ \A k \in kept :
                 LET entry == loaded.entries[PlaceAmong(kept, k)]
                 IN /\ entry.source = "history"
                    /\ entry.url = loadFile.items[k].titleUrl
                    /\ entry.videoId = ExtractVideoIdFromUrl(loadFile.items[k].titleUrl)

\* What fetchTranscript ended with for the candidate at position pos, as the
\* run has recorded it.
OutcomeAt(pos) ==
  LET e == CHOOSE c \in {completionOrder[k] : k \in 1..Len(completionOrder)} : c.pos = pos
  IN CHOOSE o \in FetchOutcomes : o.kind = e.kind

Completed(pos) == \E k \in 1..Len(completionOrder) : completionOrder[k].pos = pos

\* The candidates both modes keep: videos.filter((v) => !skipIds.has(v.videoId)).
KeptPositions ==
  LET tp == FilterSkipped(videos, skipIds, 1) IN {tp[k] : k \in 1..Len(tp)}

\* C34. The two scheduler modes agree: over the same candidates, skipIds and
\* per-video fetch outcomes, the list processVideos returns holds, as a set,
\* the results streamVideos makes of those outcomes for the unskipped
\* candidates, and a streamVideos run drained to its end has yielded, as a
\* set, the results processVideos makes of them; neither holds a result twice.
C34_ModesAgree ==
  /\ (mode = "collect" /\ pc = "resolved") =>
       /\ \A pos \in KeptPositions : Completed(pos)
       /\ {results[k] : k \in 1..Len(results)}
            = {StreamProcessOne(pos, OutcomeAt(pos)).result : pos \in KeptPositions}
       /\ Len(results) = Cardinality(KeptPositions)
  /\ (mode = "stream" /\ bulk = "none" /\ gen = "completed" /\ ~returnCalled) =>
       /\ \A pos \in KeptPositions : Completed(pos)
       /\ {yielded[k] : k \in 1..Len(yielded)}
            = {ProcessOne(pos, OutcomeAt(pos)).result : pos \in KeptPositions}
       /\ Len(yielded) = Cardinality(KeptPositions)

\* A resolved processVideos run over three candidates, one of them skipped,
\* whose two attempts ended in the reverse of the input order, one with an
\* Error and one with a thrown value that is no Error.
C34_Witness ==
  /\ mode = "collect"
  /\ pc = "resolved"
  /\ Len(videos) = 3
  /\ Len(results) = 2
  /\ Len(completionOrder) = 2
  /\ completionOrder[1].pos > completionOrder[2].pos
  /\ {completionOrder[1].kind, completionOrder[2].kind} = {"Error", "nonError"}

\* C35. Candidates are read-only input: no step of processVideos or of
\* streamVideos changes the candidate list, a candidate record or the skipIds
\* set, and the meta of every result (returned, yielded, or passed to
\* onProgress) is the candidate record that was supplied at its position.
C35_CandidatesReadOnly ==
  /\ [][videos' = videos /\ skipIds' = skipIds]_vars
  /\ [](/\ \A k \in 1..Len(results) : results[k].meta = videos[results[k].pos]
        /\ \A k \in 1..Len(yielded) : yielded[k].meta = videos[yielded[k].pos]
        /\ \A k \in 1..Len(progressCalls) :
             progressCalls[k].result.meta = videos[progressCalls[k].result.pos])

\* A streamVideos run over three candidates with a skipped one that has
\* yielded two results, a success and a failure.
C35_Witness ==
  /\ mode = "stream"
  /\ Len(videos) = 3
  /\ skipIds # {}
  /\ Len(yielded) = 2
  /\ yielded[1].error = Absent
  /\ yielded[2].error # Absent

\* The videoIds of the records the log held when the running command started.
RecordedAtStart ==
  {log[k].meta.videoId : k \in 1..(Len(log) - appends)}

\* The videoIds fetchTranscript was called for by the running command.
AttemptedIds == {videos[started[k]].videoId : k \in 1..Len(started)}

\* C36. Resume across interruption: a bulk command that was interrupted and
\* started again with --resume over the same inputs and log calls
\* fetchTranscript for no video that has a record in the log, success or
\* failure, and once it is done it has called it for every other video of
\* the input, and the log holds exactly one record for every video of the
\* input.
C36_ResumeAcrossInterruption ==
  (mode = "stream" /\ bulk # "none" /\ interrupted > 0) =>
    /\ AttemptedIds \cap RecordedAtStart = {}
    /\ bulk = "done" =>
         \A i \in 1..Len(allVideos) :
           /\ allVideos[i].videoId \in RecordedAtStart \cup AttemptedIds
           /\ Cardinality({k \in 1..Len(log) :
                             log[k].meta.videoId = allVideos[i].videoId}) = 1

\* A run over two videos was killed after the failure record of the first
\* was written; the run with --resume has attempted the second only and is
\* done, with two lines in the log.
C36_Witness ==
  /\ mode = "stream"
  /\ bulk = "done"
  /\ interrupted = 1
  /\ Len(allVideos) = 2
  /\ Len(log) = 2
  /\ log[1].meta = allVideos[1]
  /\ log[1].transcript = Null
  /\ Len(videos) = 1
  /\ AttemptedIds = {allVideos[2].videoId}
  /\ appends = 1

\* C37. Collect-mode result order: the results processVideos has collected,
\* and the list it returns, are in the input order of the unskipped
\* candidates (result i belongs to the i-th unskipped candidate), whatever
\* the order in which the attempts completed, while the calls of onProgress
\* come in completion order.
C37_CollectResultOrder ==
  mode = "collect" =>
    /\ \A i \in 1..Len(results) :
         /\ results[i].pos \in Unskipped
         /\ PlaceAmong(Unskipped, results[i].pos) = i
    /\ pc = "resolved" => Len(results) = Cardinality(Unskipped)
    /\ onProgress # "none" =>
         /\ Len(progressCalls) = Len(completionOrder)
         /\ \A k \in 1..Len(progressCalls) :
              progressCalls[k].result.pos = completionOrder[k].pos

\* A resolved run over three candidates, the second skipped: the attempt for
\* the third completed before the attempt for the first, onProgress was
\* called for the third first, and the list returned has the first first.
C37_Witness ==
  /\ mode = "collect"
  /\ pc = "resolved"
  /\ onProgress = "returns"
  /\ Unskipped = {1, 3}
  /\ completionOrder[1].pos = 3
  /\ progressCalls[1].result.pos = 3
  /\ progressCalls[2].result.pos = 1
  /\ results[1].pos = 1
  /\ results[2].pos = 3

\* C38. Stream mode is sequential: in every state of a streamVideos run at
\* most one fetchTranscript attempt is in flight and none waits in the
\* limiter, whatever the value of concurrency, and the results are yielded
\* in the input order of the unskipped candidates.
C38_StreamSequential ==
  (mode = "stream" /\ bulk = "none") =>
    /\ Cardinality(InFlight) <= 1
    /\ Cardinality(active) <= 1
    /\ queue = <<>>
    /\ peakInFlight <= 1
    /\ \A i \in 1..Len(yielded) :
         /\ yielded[i].pos \in Unskipped
         /\ PlaceAmong(Unskipped, yielded[i].pos) = i

\* Under concurrency 2, with the second of three candidates skipped and two
\* requests of the consumer waiting: the result of the first was yielded and
\* the attempt for the third is the only one in flight.
C38_Witness ==
  /\ mode = "stream"
  /\ bulk = "none"
  /\ concurrency = 2
  /\ Len(videos) = 3
  /\ Unskipped = {1, 3}
  /\ Len(yielded) = 1
  /\ yielded[1].pos = 1
  /\ InFlight = {3}
  /\ pendingNext = 2

\* C39. Collect mode terminates: for every concurrency >= 1, pauseAfter >= 0
\* and pauseDuration >= 0 and every non-empty list of unskipped candidates,
\* processVideos eventually resolves, provided every fetch attempt eventually
\* completes; the loop that partitions the work list into batches ends for
\* pauseAfter = 0 too.
C39_CollectTerminates == <>(mode = "collect" /\ pc = "resolved")

\* The places in the merged list of the videos the running command kept.
BulkKept == {i \in 1..Len(allVideos) : allVideos[i].videoId \notin BulkSkipped}

\* C40. Persist before proceeding: in the bulk command the appendJsonl of a
\* result has resolved before fetchTranscript is called for the next
\* candidate: no attempt is in flight while a line is written, at most one
\* appendJsonl is under way, at most one completed attempt has no line in
\* the log, and the lines the command has appended are, in order, those of
\* the unskipped videos in input order.
C40_PersistBeforeProceeding ==
  (mode = "stream" /\ bulk # "none") =>
    /\ Len(started) <= appends + 1
    /\ taken - appends \in {0, 1}
    /\ (taken - appends = 1) <=> (bulk = "appending")
    /\ bulk = "appending" => (InFlight = {} /\ appending = yielded[taken])
    /\ Len(completionOrder) - appends \in {0, 1}
    /\ \A k \in 1..appends :
         \E i \in BulkKept :
           /\ PlaceAmong(BulkKept, i) = k
           /\ log[Len(log) - appends + k].meta = allVideos[i]

\* Over two videos under concurrency 2: the line of the
\* first is in the log, the attempt for the second has completed and its
\* line is being written, and nothing is in flight.
C40_Witness ==
  /\ mode = "stream"
  /\ bulk = "appending"
  /\ concurrency = 2
  /\ Len(allVideos) = 2
  /\ BulkKept = {1, 2}
  /\ appends = 1
  /\ taken = 2
  /\ Len(started) = 2
  /\ Len(completionOrder) = 2
  /\ log[Len(log)].meta = allVideos[1]

====
